---------------------------- MODULE Spec2Model ----------------------------
(***************************************************************************)
(* Model of the food-label extraction core of src/ocr-service/main.py:     *)
(* extract_text_lines, parse_food_label, the field extractors,             *)
(* extract_nutrition and calculate_nrv.                                    *)
(*                                                                         *)
(* Text.  A Python str is modelled as a sequence of characters, each       *)
(* character a one-token string.  ASCII characters are themselves          *)
(* ("4", "g", ":", " ", "\n"); a CJK character is written as its pinyin    *)
(* with tone number, made unique with a gloss where two characters share a *)
(* reading ("sheng1" is 生, "sheng1_litre" is 升); "colon_fw" is the       *)
(* full-width colon ：, "dun_comma" is 、.  Every definition that holds    *)
(* text carries the original text in its comment.                          *)
(*                                                                         *)
(* Values.  A Python value is a record [k, v]: k = "None", "str" (v the    *)
(* character sequence), "dict" (v a function from keys to character        *)
(* sequences) or "raise" (the call ended with an exception; v names it).   *)
(***************************************************************************)
EXTENDS Integers, Sequences, FiniteSets, TLC

VARIABLES
    pc,          \* where the request is: "ocr", "lines", "parsed", "raised"
    ocr_result,  \* what the OCR engine returned
    text_lines,  \* the Line Corpus: extract_text_lines(ocr_result)
    full_text,   \* '\n'.join(text_lines), as parse_food_label builds it
    food_label,  \* the record the last run of parse_food_label returned
    prev_label,  \* the record the run before it returned
    runs,        \* runs of parse_food_label on this corpus
    nutrition,   \* what extract_nutrition returned
    commodityBarcode,  \* what extract_barcode returned
    img_data,    \* what download_image returned to recognize_food_label
    response,    \* what recognize_food_label returned to the caller
    mock_data    \* the module-level list MOCK_DATA of main_mock.py

vars == <<pc, ocr_result, text_lines, full_text, food_label, prev_label, runs,
          nutrition, commodityBarcode, img_data, response, mock_data>>

---------------------------------------------------------------------------
(* Python values *)

None == [k |-> "None", v |-> <<>>]
Str(s) == [k |-> "str", v |-> s]
Dict(d) == [k |-> "dict", v |-> d]
Raise(e) == [k |-> "raise", v |-> e]

EmptyDict == [x \in {} |-> <<>>]

---------------------------------------------------------------------------
(* Character classes of the re module, over the characters the model uses *)

\* \d
Digit == {"0", "1", "2", "3", "4", "5", "6", "7", "8", "9"}

\* a-z and A-Z
Lower == {"a", "b", "c", "d", "e", "f", "g", "h", "i", "j", "k", "l", "m",
          "n", "o", "p", "q", "r", "s", "t", "u", "v", "w", "x", "y", "z"}

Upper == {"A", "B", "C", "D", "E", "F", "G", "H", "I", "J", "K", "L", "M",
          "N", "O", "P", "Q", "R", "S", "T", "U", "V", "W", "X", "Y", "Z"}

\* \s, and what str.strip() removes
Space == {" ", "\n", "\t", "space_fw"}

\* every other ASCII character the model's texts use
Punct == {":", "-", "/", ".", "|", "%", "(", ")", "+"}

\* characters outside 一-龥 that are not ASCII: ： 、 ，
WidePunct == {"colon_fw", "dun_comma", "comma_fw"}

NotCJK == Digit \cup Lower \cup Upper \cup Space \cup Punct \cup WidePunct

\* 一-龥: every pinyin token
IsCJK(c) == c \notin NotCJK

---------------------------------------------------------------------------
(* Regular expressions: the pattern trees sre builds, and re.search *)

Lit(s) == [t |-> "lit", s |-> s]
In(S) == [t |-> "in", s |-> S]
InCJK(S) == [t |-> "incjk", s |-> S]
Dot == [t |-> "any"]
Eos == [t |-> "eos"]
\* x{lo,hi}, and x{lo,} when unb; lazy (x{lo,hi}?) when not greedy
Rep(x, lo, hi, unb, greedy) ==
    [t |-> "rep", x |-> x, lo |-> lo, hi |-> hi, unb |-> unb, greedy |-> greedy]
Alt(xs) == [t |-> "alt", xs |-> xs]
Cat(xs) == [t |-> "cat", xs |-> xs]
Grp(n, x) == [t |-> "grp", n |-> n, x |-> x]

Star(x) == Rep(x, 0, 0, TRUE, TRUE)
Plus(x) == Rep(x, 1, 0, TRUE, TRUE)
Opt(x) == Rep(x, 0, 1, FALSE, TRUE)
LazyPlus(x) == Rep(x, 1, 0, TRUE, FALSE)
Times(x, lo, hi) == Rep(x, lo, hi, FALSE, TRUE)

NoMatch == [ok |-> FALSE, start |-> 0, end |-> 0, caps |-> <<>>]

Max(a, b) == IF a > b THEN a ELSE b
Min(a, b) == IF a < b THEN a ELSE b

RECURSIVE GroupCount(_)
\* len(match.groups()): the number of capturing groups of the pattern
GroupCount(x) ==
    CASE x.t = "grp" -> Max(x.n, GroupCount(x.x))
      [] x.t = "rep" -> GroupCount(x.x)
      [] x.t \in {"alt", "cat"} ->
            IF x.xs = <<>> THEN 0
            ELSE Max(GroupCount(x.xs[1]), GroupCount([x EXCEPT !.xs = Tail(x.xs)]))
      [] OTHER -> 0

\* Whether the one-character pattern x (a class or the dot) accepts c
CharMatches(x, c) ==
    CASE x.t = "in" -> c \in x.s
      [] x.t = "incjk" -> c \in x.s \/ IsCJK(c)
      [] x.t = "any" -> c # "\n"

\* The longest run of characters from position i of s, at most cap long, that
\* the one-character pattern x accepts
RunLength(x, s, i, cap) ==
    CHOOSE k \in 0..cap :
        /\ \A j \in 1..k : CharMatches(x, s[i + j - 1])
        /\ k = cap \/ ~CharMatches(x, s[i + k])

SetMax(S) == CHOOSE k \in S : \A j \in S : j <= k
SetMin(S) == CHOOSE k \in S : \A j \in S : k <= j

RECURSIVE MatchAt(_, _, _, _)
\* The backtracking matcher: todo is the sequence of pattern nodes still to
\* match from position i of s (1-based); caps[n] = <<start, end>> of group n
\* (<<0, 0>>: the group did not take part).  The first alternative that leads
\* to a complete match wins, as in sre: a greedy repetition takes the longest
\* run after which the rest of the pattern matches, a lazy one the shortest.
MatchAt(todo, s, i, caps) ==
    IF todo = <<>> THEN [ok |-> TRUE, start |-> 0, end |-> i, caps |-> caps]
    ELSE
    LET x == Head(todo)
        rest == Tail(todo)
    IN  CASE x.t = "lit" ->
               IF /\ i + Len(x.s) - 1 <= Len(s)
                  /\ \A j \in 1..Len(x.s) : s[i + j - 1] = x.s[j]
               THEN MatchAt(rest, s, i + Len(x.s), caps)
               ELSE NoMatch
          [] x.t \in {"in", "incjk", "any"} ->
               IF i <= Len(s) /\ CharMatches(x, s[i])
               THEN MatchAt(rest, s, i + 1, caps)
               ELSE NoMatch
          [] x.t = "eos" ->
               IF i = Len(s) + 1 \/ (i = Len(s) /\ s[i] = "\n")
               THEN MatchAt(rest, s, i, caps)
               ELSE NoMatch
          [] x.t = "cat" -> MatchAt(x.xs \o rest, s, i, caps)
          [] x.t = "alt" ->
               IF x.xs = <<>> THEN NoMatch
               ELSE LET first == MatchAt(<<x.xs[1]>> \o rest, s, i, caps)
                    IN  IF first.ok THEN first
                        ELSE MatchAt(<<Alt(Tail(x.xs))>> \o rest, s, i, caps)
          [] x.t = "grp" ->
               MatchAt(<<[t |-> "open", n |-> x.n], x.x, [t |-> "close", n |-> x.n]>> \o rest,
                       s, i, caps)
          [] x.t = "open" ->
               MatchAt(rest, s, i, [caps EXCEPT ![x.n] = <<i, 0>>])
          [] x.t = "close" ->
               MatchAt(rest, s, i, [caps EXCEPT ![x.n] = <<caps[x.n][1], i>>])
          [] x.t = "rep" /\ x.x.t \in {"in", "incjk", "any"} ->
               \* a repeated class: every count from lo to the length of the run
               \* is a candidate, tried longest first (greedy) or shortest first
               LET left == Len(s) - i + 1
                   run == RunLength(x.x, s, i, IF x.unb THEN left ELSE Min(x.hi, left))
                   after == [k \in x.lo..run |-> MatchAt(rest, s, i + k, caps)]
                   good == {k \in x.lo..run : after[k].ok}
               IN  IF good = {} THEN NoMatch
                   ELSE IF x.greedy THEN after[SetMax(good)]
                   ELSE after[SetMin(good)]
          [] x.t = "rep" /\ x.x.t \notin {"in", "incjk", "any"} ->
               \* a repeated group (the source has only optional ones, x?)
               LET more == IF ~x.unb /\ x.hi = 0 THEN NoMatch
                           ELSE MatchAt(<<x.x, Rep(x.x, Max(x.lo - 1, 0), Max(x.hi - 1, 0),
                                                   x.unb, x.greedy)>> \o rest, s, i, caps)
               IN  IF x.lo > 0 THEN more
                   ELSE IF x.greedy
                        THEN IF more.ok THEN more ELSE MatchAt(rest, s, i, caps)
                        ELSE LET stop == MatchAt(rest, s, i, caps)
                             IN  IF stop.ok THEN stop ELSE more

\* re.search(pattern, s): the match at the leftmost position where the
\* pattern matches; m.ok = FALSE is Python's None
Search(re, s) ==
    LET caps == [n \in 1..GroupCount(re) |-> <<0, 0>>]
        at == [i \in 1..Len(s) + 1 |-> MatchAt(<<re>>, s, i, caps)]
        good == {i \in 1..Len(s) + 1 : at[i].ok}
    IN  IF good = {} THEN NoMatch
        ELSE [at[SetMin(good)] EXCEPT !.start = SetMin(good)]

\* match.group(n) on a match m of s: group 0 is the whole match; a group that
\* took no part is None; a group the pattern does not have is
\* IndexError("no such group")
Group(s, m, n) ==
    IF n = 0 THEN Str(SubSeq(s, m.start, m.end - 1))
    ELSE IF n > Len(m.caps) THEN Raise("IndexError")
    ELSE IF m.caps[n][2] = 0 THEN None
    ELSE Str(SubSeq(s, m.caps[n][1], m.caps[n][2] - 1))

---------------------------------------------------------------------------
(* str operations *)

\* s.find(sub), 1-based: the first position where sub starts, 0 when absent
\* (Python: 0-based, -1 when absent)
Find(s, sub) ==
    LET at == {i \in 1..Len(s) - Len(sub) + 1 : SubSeq(s, i, i + Len(sub) - 1) = sub}
    IN  IF at = {} THEN 0 ELSE SetMin(at)

\* sub in s
Contains(s, sub) == Find(s, sub) # 0

\* s.strip(): from the first to the last character that is not white space
Strip(s) ==
    LET solid == {i \in 1..Len(s) : s[i] \notin Space}
    IN  IF solid = {} THEN <<>> ELSE SubSeq(s, SetMin(solid), SetMax(solid))

\* v.strip() on a value: a str is stripped, an exception is passed on
StripValue(v) == IF v.k = "str" THEN Str(Strip(v.v)) ELSE v

RECURSIVE Join(_, _)
\* sep.join(lines)
Join(sep, lines) ==
    IF lines = <<>> THEN <<>>
    ELSE IF Len(lines) = 1 THEN lines[1]
    ELSE lines[1] \o sep \o Join(sep, Tail(lines))

RECURSIVE IndexFrom(_, _, _)
IndexFrom(lines, line, i) ==
    IF lines[i] = line THEN i ELSE IndexFrom(lines, line, i + 1)

\* text_lines.index(line), 1-based: the first position of an equal line
Index(lines, line) == IndexFrom(lines, line, 1)

\* any(keyword in line for keyword in keywords)
AnyIn(keywords, line) == \E j \in 1..Len(keywords) : Contains(line, keywords[j])

RECURSIVE FirstMatchFrom(_, _, _)
FirstMatchFrom(patterns, s, j) ==
    IF j > Len(patterns) THEN [i |-> 0, m |-> NoMatch]
    ELSE LET m == Search(patterns[j], s)
         IN  IF m.ok THEN [i |-> j, m |-> m] ELSE FirstMatchFrom(patterns, s, j + 1)

\* for pattern in patterns: match = re.search(pattern, s); if match: ...
\* the first pattern of the list that matches (i, 0 when none does) and its match
FirstMatch(patterns, s) == FirstMatchFrom(patterns, s, 1)

---------------------------------------------------------------------------
(* The patterns of the extractors, transcribed from the source *)

\* line 443: r'[名称][:：]\s*(.+)'
FoodNamePattern ==
    Cat(<<In({"ming2", "cheng1"}), In({":", "colon_fw"}), Star(In(Space)),
    Grp(1, Plus(Dot))>>)

\* line 460: r'[配料表|成分|原料][:：]\s*(.+)'
IngredientsPattern ==
    Cat(<<In({"pei4", "liao4", "biao3", "|", "cheng2", "fen4", "yuan2"}),
    In({":", "colon_fw"}), Star(In(Space)), Grp(1, Plus(Dot))>>)

\* line 519: r'{0}[:：]\s*(.+?)(?:\n|地址|电话)'
ProducerPattern(keyword) ==
    Cat(<<Lit(keyword), In({":", "colon_fw"}), Star(In(Space)), Grp(1,
    LazyPlus(Dot)), Alt(<<Lit(<<"\n">>), Lit(<<"di4", "zhi3">>),
    Lit(<<"dian4", "hua4">>)>>)>>)

\* line 535: r'地址[:：]\s*(.+)'
AddressPattern ==
    Cat(<<Lit(<<"di4", "zhi3">>), In({":", "colon_fw"}), Star(In(Space)),
    Grp(1, Plus(Dot))>>)

\* line 675: r'(?:致敏物质|过敏原|含有)[:：]?\s*(.+?)(?:\n|$)'
AllergenClausePattern ==
    Cat(<<Alt(<<Lit(<<"zhi4_cause", "min3", "wu4", "zhi4_quality">>),
    Lit(<<"guo4", "min3", "yuan2">>), Lit(<<"han2", "you3">>)>>),
    Opt(In({":", "colon_fw"})), Star(In(Space)), Grp(1, LazyPlus(Dot)),
    Alt(<<Lit(<<"\n">>), Eos>>)>>)

\* line 740: r'{0}[:：\s]*(\d+\.?\d*)\s*([a-zA-Z一-龥]+)'
TablePattern(keyword) ==
    Cat(<<Lit(keyword), Star(In({":", "colon_fw"} \cup Space)), Grp(1,
    Cat(<<Plus(In(Digit)), Opt(Lit(<<".">>)), Star(In(Digit))>>)),
    Star(In(Space)), Grp(2, Plus(InCJK(Lower \cup Upper)))>>)

\* line 772: r'(\d+\.?\d*)'
NrvValuePattern ==
    Grp(1, Cat(<<Plus(In(Digit)), Opt(Lit(<<".">>)), Star(In(Digit))>>))

\* line 777: r'(kcal|千卡|kJ|千焦)'
NrvUnitPattern ==
    Grp(1, Alt(<<Lit(<<"k", "c", "a", "l">>), Lit(<<"qian1", "ka3">>),
    Lit(<<"k", "J">>), Lit(<<"qian1", "jiao1">>)>>))

---------------------------------------------------------------------------
(* The field extractors.  Each returns a value: Str(text), None, or         *)
(* Raise(e) when the Python function ends with exception e.                 *)

\* '食品名称', '产品名称'
NameLabels == <<<<"shi2", "pin3", "ming2", "cheng1">>, <<"chan3", "pin3", "ming2", "cheng1">>>>

RECURSIVE LabeledName(_, _)
\* lines 440-445: the first line holding a name label on which the pattern matches
LabeledName(text_lines_, i) ==
    IF i > Len(text_lines_) THEN None
    ELSE LET line == text_lines_[i]
             m == Search(FoodNamePattern, line)
         IN  IF AnyIn(NameLabels, line) /\ m.ok
             THEN StripValue(Group(line, m, 1))
             ELSE LabeledName(text_lines_, i + 1)

\* line 449: len(line) > 2 and len(line) < 50
NameLengthOk(line) == Len(line) > 2 /\ Len(line) < 50

\* A variant of FallbackName that takes the last such line
LastFallbackName(text_lines_, i) ==
    LET fits == {j \in i..Len(text_lines_) : NameLengthOk(text_lines_[j])}
    IN  IF fits = {} THEN None ELSE Str(Strip(text_lines_[SetMax(fits)]))

RECURSIVE FallbackName(_, _)
\* lines 448-450: the first line whose length is in (2, 50)
FallbackName(text_lines_, i) ==
    IF i > Len(text_lines_) THEN None
    ELSE IF NameLengthOk(text_lines_[i]) THEN Str(Strip(text_lines_[i]))
    ELSE FallbackName(text_lines_, i + 1)

extract_food_name(text_lines_, full_text_) ==
    LET labeled == LabeledName(text_lines_, 1)
    IN  IF labeled # None THEN labeled ELSE FallbackName(text_lines_, 1)

\* '配料', '成分', '原料'
IngredientKeywords == <<<<"pei4", "liao4">>, <<"cheng2", "fen4">>, <<"yuan2", "liao4">>>>

RECURSIVE Continuation(_, _, _, _)
\* lines 467-471: for i in range(idx + 1, min(idx + 5, len(text_lines))), with
\* i and last 1-based: append ' ' + the stripped line when it is not blank, and
\* stop once the text is longer than 50
Continuation(text_lines_, ingredients, i, last) ==
    IF i > last THEN ingredients
    ELSE IF Strip(text_lines_[i]) # <<>>
         THEN LET longer == ingredients \o <<" ">> \o Strip(text_lines_[i])
              IN  IF Len(longer) > 50 THEN longer
                  ELSE Continuation(text_lines_, longer, i + 1, last)
         ELSE Continuation(text_lines_, ingredients, i + 1, last)

RECURSIVE IngredientsFrom(_, _)
IngredientsFrom(text_lines_, i) ==
    IF i > Len(text_lines_) THEN None
    ELSE LET line == text_lines_[i]
             m == Search(IngredientsPattern, line)
         IN  IF AnyIn(IngredientKeywords, line) /\ m.ok
             THEN LET ingredients == Strip(Group(line, m, 1).v)
                      idx == Index(text_lines_, line)
                  IN  IF Len(ingredients) < 10
                      THEN Str(Strip(Continuation(text_lines_, ingredients, idx + 1,
                                                  Min(idx + 4, Len(text_lines_)))))
                      ELSE Str(Strip(ingredients))
             ELSE IngredientsFrom(text_lines_, i + 1)

extract_ingredients(text_lines_, full_text_) == IngredientsFrom(text_lines_, 1)

NetContentPatterns ==
    <<
    \* line 480: r'净含量[:：]\s*(\d+\.?\d*)\s*([克gG千克kgK毫升mlML升L])'
    Cat(<<Lit(<<"jing4", "han2", "liang4">>), In({":", "colon_fw"}),
    Star(In(Space)), Grp(1, Cat(<<Plus(In(Digit)), Opt(Lit(<<".">>)),
    Star(In(Digit))>>)), Star(In(Space)), Grp(2, In({"ke4", "g", "G",
    "qian1", "k", "K", "hao2", "sheng1_litre", "m", "l", "M", "L"}))>>),
    \* line 481: r'净含量[:：]\s*(\d+\.?\d*)\s*([克千克克毫升升]+)'
    Cat(<<Lit(<<"jing4", "han2", "liang4">>), In({":", "colon_fw"}),
    Star(In(Space)), Grp(1, Cat(<<Plus(In(Digit)), Opt(Lit(<<".">>)),
    Star(In(Digit))>>)), Star(In(Space)), Grp(2, Plus(In({"ke4", "qian1",
    "hao2", "sheng1_litre"})))>>),
    \* line 482: r'(\d+\.?\d*)\s*[克gG][克gG]?\s*(?:/\s*[袋瓶盒包箱])'
    Cat(<<Grp(1, Cat(<<Plus(In(Digit)), Opt(Lit(<<".">>)),
    Star(In(Digit))>>)), Star(In(Space)), In({"ke4", "g", "G"}),
    Opt(In({"ke4", "g", "G"})), Star(In(Space)), Lit(<<"/">>),
    Star(In(Space)), In({"dai4", "ping2", "he2", "bao1", "xiang1"})>>)
    >>

\* value + unit as one str (f"{value}{unit}"); an exception in either is passed on
Format2(value, unit) ==
    IF value.k = "raise" THEN value
    ELSE IF unit.k = "raise" THEN unit
    ELSE Str(value.v \o unit.v)

extract_net_content(full_text_) ==
    LET f == FirstMatch(NetContentPatterns, full_text_)
    IN  IF f.i = 0 THEN None
        ELSE LET value == Group(full_text_, f.m, 1)
                 \* '克'
                 unit == IF Len(f.m.caps) > 1 THEN Group(full_text_, f.m, 2)
                         ELSE Str(<<"ke4">>)
             IN  Format2(value, unit)

SpecificationPatterns ==
    <<
    \* line 498: r'规格[:：]\s*(.+?)(?:\n|$)'
    Cat(<<Lit(<<"gui1", "ge2">>), In({":", "colon_fw"}), Star(In(Space)),
    Grp(1, LazyPlus(Dot)), Alt(<<Lit(<<"\n">>), Eos>>)>>),
    \* line 499: r'(\d+[一-龥]/[一-龥]+)'
    Grp(1, Cat(<<Plus(In(Digit)), InCJK({}), Lit(<<"/">>),
    Plus(InCJK({}))>>)),
    \* line 500: r'(\d+)[克gGg]/[盒瓶包袋]'
    Cat(<<Grp(1, Plus(In(Digit))), In({"ke4", "g", "G"}), Lit(<<"/">>),
    In({"he2", "ping2", "bao1", "dai4"})>>)
    >>

extract_specification(full_text_) ==
    LET f == FirstMatch(SpecificationPatterns, full_text_)
    IN  IF f.i = 0 THEN None ELSE StripValue(Group(full_text_, f.m, 1))

\* '生产商', '生产厂家', '制造商', '委托生产企业', '生产者'
ProducerKeywords ==
    <<<<"sheng1", "chan3", "shang1">>, <<"sheng1", "chan3", "chang3", "jia1">>, <<"zhi4", "zao4", "shang1">>, <<"wei3", "tuo1", "sheng1", "chan3", "qi3", "ye4">>, <<"sheng1", "chan3", "zhe3">>>>

RECURSIVE LabeledProducer(_, _)
\* lines 515-521: for each keyword found in full_text, search the pattern in
\* full_text[idx:], idx the first place of the keyword
LabeledProducer(full_text_, j) ==
    IF j > Len(ProducerKeywords) THEN None
    ELSE LET keyword == ProducerKeywords[j]
             idx == Find(full_text_, keyword)
             rest == SubSeq(full_text_, idx, Len(full_text_))
             m == Search(ProducerPattern(keyword), rest)
         IN  IF idx # 0 /\ m.ok THEN StripValue(Group(rest, m, 1))
             ELSE LabeledProducer(full_text_, j + 1)

\* line 525: '有限公司' in line and '地址' not in line and len(line) < 50
IsCompanyLine(line) ==
    /\ Contains(line, <<"you3", "xian4", "gong1", "si1">>)
    /\ ~Contains(line, <<"di4", "zhi3">>)
    /\ Len(line) < 50

RECURSIVE CompanyLine(_, _)
CompanyLine(text_lines_, i) ==
    IF i > Len(text_lines_) THEN None
    ELSE IF IsCompanyLine(text_lines_[i]) THEN Str(Strip(text_lines_[i]))
    ELSE CompanyLine(text_lines_, i + 1)

extract_producer(text_lines_, full_text_) ==
    LET labeled == LabeledProducer(full_text_, 1)
    IN  IF labeled # None THEN labeled ELSE CompanyLine(text_lines_, 1)

RECURSIVE AddressFrom(_, _)
AddressFrom(text_lines_, i) ==
    IF i > Len(text_lines_) THEN None
    ELSE LET line == text_lines_[i]
             m == Search(AddressPattern, line)
         IN  IF Contains(line, <<"di4", "zhi3">>) /\ m.ok
             THEN LET address == Strip(Group(line, m, 1).v)
                      idx == Index(text_lines_, line)
                  IN  IF Len(address) < 10 /\ idx + 1 <= Len(text_lines_)
                      THEN Str(address \o <<" ">> \o Strip(text_lines_[idx + 1]))
                      ELSE Str(address)
             ELSE AddressFrom(text_lines_, i + 1)

extract_address(text_lines_, full_text_) == AddressFrom(text_lines_, 1)

PhonePatterns ==
    <<
    \* line 552: r'电话[:：]\s*(\d{3,4}[-\s]?\d{7,8})'
    Cat(<<Lit(<<"dian4", "hua4">>), In({":", "colon_fw"}), Star(In(Space)),
    Grp(1, Cat(<<Times(In(Digit), 3, 4), Opt(In({"-"} \cup Space)),
    Times(In(Digit), 7, 8)>>))>>),
    \* line 553: r'联系方式[:：]\s*(.+?)(?:\n|$)'
    Cat(<<Lit(<<"lian2", "xi4", "fang1", "shi4">>), In({":", "colon_fw"}),
    Star(In(Space)), Grp(1, LazyPlus(Dot)), Alt(<<Lit(<<"\n">>), Eos>>)>>),
    \* line 554: r'(\d{3,4}[-\s]?\d{7,8})'
    Grp(1, Cat(<<Times(In(Digit), 3, 4), Opt(In({"-"} \cup Space)),
    Times(In(Digit), 7, 8)>>))
    >>

extract_contact_info(full_text_) ==
    LET f == FirstMatch(PhonePatterns, full_text_)
    IN  IF f.i = 0 THEN None ELSE StripValue(Group(full_text_, f.m, 1))

\* A variant of ProductionDatePatterns whose first pattern ends at the day
\* number and leaves the trailing 日 out
ProductionDatePatternsPlain ==
    <<
    Cat(<<Lit(<<"sheng1", "chan3", "ri4", "qi1">>), In({":", "colon_fw"}),
    Star(In(Space)), Grp(1, Cat(<<Times(In(Digit), 4, 4), In({"-", "/",
    "nian2"}), Times(In(Digit), 1, 2), In({"-", "/", "yue4"}),
    Times(In(Digit), 1, 2)>>))>>),
    Cat(<<Lit(<<"sheng1", "chan3", "ri4", "qi1">>), In({":", "colon_fw"}),
    Star(In(Space)), Grp(1, Cat(<<Times(In(Digit), 4, 4), Lit(<<".">>),
    Times(In(Digit), 1, 2), Lit(<<".">>), Times(In(Digit), 1, 2)>>))>>),
    Alt(<<Lit(<<"jian4", "feng1", "kou3">>), Lit(<<"jian4", "ping2", "shen1">>),
    Lit(<<"jian4", "bao1", "zhuang1">>)>>)
    >>

ProductionDatePatterns ==
    <<
    \* line 568: r'生产日期[:：]\s*(\d{4}[-/年]\d{1,2}[-/月]\d{1,2}[日]?)'
    Cat(<<Lit(<<"sheng1", "chan3", "ri4", "qi1">>), In({":", "colon_fw"}),
    Star(In(Space)), Grp(1, Cat(<<Times(In(Digit), 4, 4), In({"-", "/",
    "nian2"}), Times(In(Digit), 1, 2), In({"-", "/", "yue4"}),
    Times(In(Digit), 1, 2), Opt(Lit(<<"ri4">>))>>))>>),
    \* line 569: r'生产日期[:：]\s*(\d{4}\.\d{1,2}\.\d{1,2})'
    Cat(<<Lit(<<"sheng1", "chan3", "ri4", "qi1">>), In({":", "colon_fw"}),
    Star(In(Space)), Grp(1, Cat(<<Times(In(Digit), 4, 4), Lit(<<".">>),
    Times(In(Digit), 1, 2), Lit(<<".">>), Times(In(Digit), 1, 2)>>))>>),
    \* line 570: r'见封口|见瓶身|见包装'  (no capturing group)
    Alt(<<Lit(<<"jian4", "feng1", "kou3">>), Lit(<<"jian4", "ping2", "shen1">>),
    Lit(<<"jian4", "bao1", "zhuang1">>)>>)
    >>

\* lines 573-578: match.group(1) for whichever pattern matched first; the
\* third pattern has no group 1
extract_production_date(full_text_) ==
    LET f == FirstMatch(ProductionDatePatterns, full_text_)
    IN  IF f.i = 0 THEN None ELSE StripValue(Group(full_text_, f.m, 1))

ShelfLifePatterns ==
    <<
    \* line 584: r'保质期[:：]\s*(\d+)\s*([个月天年周])'
    Cat(<<Lit(<<"bao3", "zhi4_quality", "qi1">>), In({":", "colon_fw"}),
    Star(In(Space)), Grp(1, Plus(In(Digit))), Star(In(Space)), Grp(2,
    In({"ge4", "yue4", "tian1", "nian2", "zhou1"}))>>),
    \* line 585: r'保质期[:：]\s*(.+?)(?:\n|$)'
    Cat(<<Lit(<<"bao3", "zhi4_quality", "qi1">>), In({":", "colon_fw"}),
    Star(In(Space)), Grp(1, LazyPlus(Dot)), Alt(<<Lit(<<"\n">>), Eos>>)>>)
    >>

extract_shelf_life(full_text_) ==
    LET f == FirstMatch(ShelfLifePatterns, full_text_)
    IN  IF f.i = 0 THEN None
        ELSE IF Len(f.m.caps) > 1
             THEN Format2(Group(full_text_, f.m, 1), Group(full_text_, f.m, 2))
             ELSE StripValue(Group(full_text_, f.m, 1))

\* '贮存', '保存', '储藏', '存放'
StorageKeywords == <<<<"zhu4", "cun2">>, <<"bao3", "cun2">>, <<"chu3", "cang2">>, <<"cun2", "fang4">>>>

\* '生产', '厂址', '电话'
StorageStopKeywords == <<<<"sheng1", "chan3">>, <<"chang3", "zhi3">>, <<"dian4", "hua4">>>>

RECURSIVE StorageContinuation(_, _, _, _)
\* lines 605-609: for i in range(idx + 1, min(idx + 3, len(text_lines))), 1-based
StorageContinuation(text_lines_, storage, i, last) ==
    IF i > last THEN storage
    ELSE IF Strip(text_lines_[i]) # <<>> /\ ~AnyIn(StorageStopKeywords, text_lines_[i])
         THEN StorageContinuation(text_lines_,
                                  storage \o <<" ">> \o Strip(text_lines_[i]), i + 1, last)
         ELSE storage

RECURSIVE StorageFrom(_, _)
StorageFrom(text_lines_, i) ==
    IF i > Len(text_lines_) THEN None
    ELSE LET line == text_lines_[i]
             idx == Index(text_lines_, line)
         IN  IF AnyIn(StorageKeywords, line)
             THEN Str(StorageContinuation(text_lines_, Strip(line), idx + 1,
                                          Min(idx + 2, Len(text_lines_))))
             ELSE StorageFrom(text_lines_, i + 1)

extract_storage_conditions(text_lines_, full_text_) == StorageFrom(text_lines_, 1)

LicensePatterns ==
    <<
    \* line 618: r'SC[1|2]\d{13}'
    Cat(<<Lit(<<"S", "C">>), In({"1", "|", "2"}), Times(In(Digit), 13,
    13)>>),
    \* line 619: r'QS\d{12}'
    Cat(<<Lit(<<"Q", "S">>), Times(In(Digit), 12, 12)>>),
    \* line 620: r'生产许可证编号[:：]\s*(SC\d+)'
    Cat(<<Lit(<<"sheng1", "chan3", "xu3", "ke3", "zheng4", "bian1",
    "hao4">>), In({":", "colon_fw"}), Star(In(Space)), Grp(1,
    Cat(<<Lit(<<"S", "C">>), Plus(In(Digit))>>))>>)
    >>

\* line 626: group(0) for the patterns that start with 'SC' or 'QS' (the
\* first two), group(1) for the third
extract_license_number(full_text_) ==
    LET f == FirstMatch(LicensePatterns, full_text_)
    IN  IF f.i = 0 THEN None
        ELSE IF f.i \in {1, 2} THEN Group(full_text_, f.m, 0)
        ELSE Group(full_text_, f.m, 1)

StandardCodePatterns ==
    <<
    \* line 634: r'产品标准代号[:：]\s*([A-Z]{1,2}/[T]\s*\d+(?:\.\d+)?)'
    Cat(<<Lit(<<"chan3", "pin3", "biao1", "zhun3", "dai4_code", "hao4">>),
    In({":", "colon_fw"}), Star(In(Space)), Grp(1, Cat(<<Times(In(Upper),
    1, 2), Lit(<<"/", "T">>), Star(In(Space)), Plus(In(Digit)),
    Opt(Cat(<<Lit(<<".">>), Plus(In(Digit))>>))>>))>>),
    \* line 635: r'GB\s*/?\s*T\s*\d+(?:\.\d+)?'
    Cat(<<Lit(<<"G", "B">>), Star(In(Space)), Opt(Lit(<<"/">>)),
    Star(In(Space)), Lit(<<"T">>), Star(In(Space)), Plus(In(Digit)),
    Opt(Cat(<<Lit(<<".">>), Plus(In(Digit))>>))>>),
    \* line 636: r'QB\s*/?\s*\d+(?:\.\d+)?'
    Cat(<<Lit(<<"Q", "B">>), Star(In(Space)), Opt(Lit(<<"/">>)),
    Star(In(Space)), Plus(In(Digit)), Opt(Cat(<<Lit(<<".">>),
    Plus(In(Digit))>>))>>),
    \* line 637: r'[A-Z]{1,2}/[T]\s*\d+(?:\.\d+)?'
    Cat(<<Times(In(Upper), 1, 2), Lit(<<"/", "T">>), Star(In(Space)),
    Plus(In(Digit)), Opt(Cat(<<Lit(<<".">>), Plus(In(Digit))>>))>>)
    >>

extract_standard_code(full_text_) ==
    LET f == FirstMatch(StandardCodePatterns, full_text_)
    IN  IF f.i = 0 THEN None
        ELSE IF Len(f.m.caps) > 0 THEN Group(full_text_, f.m, 1)
        ELSE Group(full_text_, f.m, 0)

QualityGradePatterns ==
    <<
    \* line 651: r'质量等级[:：]\s*(.+?)(?:\n|$)'
    Cat(<<Lit(<<"zhi4_quality", "liang4", "deng3", "ji2">>), In({":",
    "colon_fw"}), Star(In(Space)), Grp(1, LazyPlus(Dot)),
    Alt(<<Lit(<<"\n">>), Eos>>)>>),
    \* line 652: r'等级[:：]\s*([一二三四特优]+等)'
    Cat(<<Lit(<<"deng3", "ji2">>), In({":", "colon_fw"}), Star(In(Space)),
    Grp(1, Cat(<<Plus(In({"yi1", "er4", "san1", "si4", "te4", "you1"})),
    Lit(<<"deng3">>)>>))>>),
    \* line 653: r'([一二三四特优]+等品)'
    Grp(1, Cat(<<Plus(In({"yi1", "er4", "san1", "si4", "te4", "you1"})),
    Lit(<<"deng3", "pin3">>)>>))
    >>

extract_quality_grade(full_text_) ==
    LET f == FirstMatch(QualityGradePatterns, full_text_)
    IN  IF f.i = 0 THEN None ELSE StripValue(Group(full_text_, f.m, 1))

\* '含有', '过敏', '致敏物质', '过敏原', '花生', '坚果', '牛奶', '乳制品', '鸡蛋',
\* '大豆', '小麦', '鱼类', '甲壳类', '芝麻'
AllergenKeywords ==
    <<<<"han2", "you3">>, <<"guo4", "min3">>, <<"zhi4_cause", "min3", "wu4", "zhi4_quality">>, <<"guo4", "min3", "yuan2">>, <<"hua1", "sheng1">>, <<"jian1", "guo3">>, <<"niu2", "nai3">>, <<"ru3", "zhi4", "pin3">>, <<"ji1", "dan4">>,
      <<"da4", "dou4">>, <<"xiao3", "mai4">>, <<"yu2", "lei4">>, <<"jia3", "qiao4", "lei4">>, <<"zhi1", "ma2">>>>

RECURSIVE AllergensFrom(_, _)
\* lines 672-678: for the first keyword found in full_text, the labeled clause
\* when the pattern matches, else '含有' + keyword
AllergensFrom(full_text_, j) ==
    IF j > Len(AllergenKeywords) THEN None
    ELSE IF Contains(full_text_, AllergenKeywords[j])
         THEN LET m == Search(AllergenClausePattern, full_text_)
              IN  IF m.ok THEN StripValue(Group(full_text_, m, 1))
                  ELSE Str(<<"han2", "you3">> \o AllergenKeywords[j])
         ELSE AllergensFrom(full_text_, j + 1)

extract_allergens(full_text_) == AllergensFrom(full_text_, 1)

\* '警示', '注意', '警告'
WarningKeywords == <<<<"jing3", "shi4_show">>, <<"zhu4_note", "yi4">>, <<"jing3", "gao4">>>>

RECURSIVE WarningFrom(_, _)
WarningFrom(text_lines_, i) ==
    IF i > Len(text_lines_) THEN None
    ELSE IF AnyIn(WarningKeywords, text_lines_[i]) THEN Str(Strip(text_lines_[i]))
    ELSE WarningFrom(text_lines_, i + 1)

extract_warning(text_lines_, full_text_) == WarningFrom(text_lines_, 1)

\* '辐照' in full_text or '本产品经辐照' in full_text  ->  "本品已辐照"
extract_irradiated(full_text_) ==
    IF Contains(full_text_, <<"fu2", "zhao4">>) \/ Contains(full_text_, <<"ben3", "chan3", "pin3", "jing1", "fu2", "zhao4">>)
    THEN Str(<<"ben3", "pin3", "yi3", "fu2", "zhao4">>)
    ELSE None

BarcodePatterns ==
    <<
    \* line 814: r'条码[:：]\s*(\d{13})'
    Cat(<<Lit(<<"tiao2", "ma3">>), In({":", "colon_fw"}), Star(In(Space)),
    Grp(1, Times(In(Digit), 13, 13))>>),
    \* line 815: r'69\d{11}'
    Cat(<<Lit(<<"6", "9">>), Times(In(Digit), 11, 11)>>)
    >>

\* A variant of extract_barcode that tries the patterns in the opposite order
extract_barcode_unlabeled_first(full_text_) ==
    LET f == FirstMatch(<<BarcodePatterns[2], BarcodePatterns[1]>>, full_text_)
    IN  IF f.i = 0 THEN None
        ELSE IF Len(f.m.caps) > 0 THEN Group(full_text_, f.m, 1)
        ELSE Group(full_text_, f.m, 0)

\* line 821: group(1) when the pattern has a group, else group(0)
extract_barcode(full_text_) ==
    LET f == FirstMatch(BarcodePatterns, full_text_)
    IN  IF f.i = 0 THEN None
        ELSE IF Len(f.m.caps) > 0 THEN Group(full_text_, f.m, 1)
        ELSE Group(full_text_, f.m, 0)

---------------------------------------------------------------------------
(* Python float arithmetic (IEEE 754 binary64, round to nearest, ties to    *)
(* even), as far as calculate_nrv uses it: float(str), float / int,         *)
(* float * float and int(float).  A float is [zero, m, e]: zero, or the     *)
(* value m * 2^e with m a 53-bit significand written as a sequence of bits, *)
(* most significant first.  Every operation computes the exact result and   *)
(* rounds it once.                                                          *)

RECURSIVE NatToBits(_)
NatToBits(n) == IF n = 0 THEN <<>> ELSE Append(NatToBits(n \div 2), n % 2)

RECURSIVE BitsToNat(_)
BitsToNat(b) ==
    IF b = <<>> THEN 0 ELSE 2 * BitsToNat(SubSeq(b, 1, Len(b) - 1)) + b[Len(b)]

Zeros(n) == [i \in 1..n |-> 0]

\* b without its leading zeros
StripZeros(b) ==
    LET ones == {i \in 1..Len(b) : b[i] = 1}
    IN  IF ones = {} THEN <<>> ELSE SubSeq(b, SetMin(ones), Len(b))

\* Long arithmetic works on limbs of 15 bits (TLC's integers have 32), most
\* significant limb first.
Limbs(b) ==
    LET n == (Len(b) + 14) \div 15
        padded == Zeros(15 * n - Len(b)) \o b
    IN  [j \in 1..n |-> BitsToNat(SubSeq(padded, 15 * (j - 1) + 1, 15 * j))]

\* the bits of a sequence of limbs
LimbBits(limbs) ==
    [i \in 1..15 * Len(limbs) |->
        (limbs[(i - 1) \div 15 + 1] \div 2 ^ (14 - ((i - 1) % 15))) % 2]

RECURSIVE LimbDivStep(_, _, _, _, _)
\* long division of limbs by the integer n < 2^14, from limb j on, with
\* remainder r so far
LimbDivStep(limbs, n, j, r, q) ==
    IF j > Len(limbs) THEN [q |-> q, r |-> r]
    ELSE LET t == r * (2 ^ 15) + limbs[j]
         IN  LimbDivStep(limbs, n, j + 1, t % n, Append(q, t \div n))

\* b \div n and b % n on bits
DivBits(b, n) ==
    LET d == LimbDivStep(Limbs(b), n, 1, 0, <<>>)
    IN  [q |-> StripZeros(LimbBits(d.q)), r |-> d.r]

RECURSIVE LimbAddStep(_, _, _, _, _)
LimbAddStep(a, b, j, carry, acc) ==
    IF j = 0 THEN <<carry>> \o acc
    ELSE LET t == a[j] + b[j] + carry
         IN  LimbAddStep(a, b, j - 1, t \div (2 ^ 15), <<t % (2 ^ 15)>> \o acc)

\* a + b on limbs
LimbAdd(a, b) ==
    LET n == Max(Len(a), Len(b))
    IN  LimbAddStep(Zeros(n - Len(a)) \o a, Zeros(n - Len(b)) \o b, n, 0, <<>>)

RECURSIVE LimbScaleStep(_, _, _, _, _)
LimbScaleStep(a, c, j, carry, acc) ==
    IF j = 0 THEN <<carry>> \o acc
    ELSE LET t == a[j] * c + carry
         IN  LimbScaleStep(a, c, j - 1, t \div (2 ^ 15), <<t % (2 ^ 15)>> \o acc)

\* a * c on limbs, c one limb
LimbScale(a, c) == LimbScaleStep(a, c, Len(a), 0, <<>>)

RECURSIVE LimbMulStep(_, _, _, _)
LimbMulStep(a, b, j, acc) ==
    IF j > Len(b) THEN acc
    ELSE LimbMulStep(a, b, j + 1, LimbAdd(Append(acc, 0), LimbScale(a, b[j])))

\* a * b on bits
MulBits(a, b) == StripZeros(LimbBits(LimbMulStep(Limbs(a), Limbs(b), 1, <<>>)))

\* b + 1 on bits
Increment(b) ==
    LET zeros == {i \in 1..Len(b) : b[i] = 0}
    IN  IF zeros = {} THEN <<1>> \o Zeros(Len(b))
        ELSE SubSeq(b, 1, SetMax(zeros) - 1) \o <<1>> \o Zeros(Len(b) - SetMax(zeros))

FloatZero == [zero |-> TRUE, m |-> <<>>, e |-> 0]

\* The float nearest to (b + f) * 2^e, where b is a bit string without
\* leading zeros and f is a fraction in [0, 1) that is not 0 exactly when
\* sticky; b has at least 55 bits when sticky.  Ties go to the even significand.
Round53(b, sticky, e) ==
    IF b = <<>> THEN FloatZero
    ELSE IF Len(b) <= 53
    THEN [zero |-> FALSE, m |-> b \o Zeros(53 - Len(b)), e |-> e - (53 - Len(b))]
    ELSE LET keep == SubSeq(b, 1, 53)
             guard == b[54]
             below == sticky \/ \E i \in 55..Len(b) : b[i] = 1
             up == guard = 1 /\ (below \/ keep[53] = 1)
             m == IF up THEN Increment(keep) ELSE keep
             e1 == e + (Len(b) - 53)
         IN  IF Len(m) = 54 THEN [zero |-> FALSE, m |-> SubSeq(m, 1, 53), e |-> e1 + 1]
             ELSE [zero |-> FALSE, m |-> m, e |-> e1]

\* the float nearest to b * 2^e / n, n an integer in 1..16383
DivRound(b, e, n) ==
    LET pad == IF Len(b) < 70 THEN 70 - Len(b) ELSE 0
        d == DivBits(b \o Zeros(pad), n)
    IN  Round53(d.q, d.r # 0, e - pad)

\* x / n for a float x and an int n
FloatDivInt(x, n) == IF x.zero THEN FloatZero ELSE DivRound(x.m, x.e, n)

\* x * y for floats
FloatMul(x, y) ==
    IF x.zero \/ y.zero THEN FloatZero
    ELSE Round53(MulBits(x.m, y.m), FALSE, x.e + y.e)

\* the float of the integer n
FloatOfInt(n) == Round53(NatToBits(n), FALSE, 0)

\* int(x) for a float x >= 0 below 2^31: the integer part
FloatToInt(x) ==
    IF x.zero \/ 53 + x.e <= 0 THEN 0
    ELSE IF x.e >= 0 THEN BitsToNat(x.m \o Zeros(x.e))
    ELSE BitsToNat(SubSeq(x.m, 1, 53 + x.e))

RECURSIVE DigitsToNat(_)
\* the number a string of digits writes
DigitsToNat(ds) ==
    IF ds = <<>> THEN 0
    ELSE 10 * DigitsToNat(SubSeq(ds, 1, Len(ds) - 1))
         + (CHOOSE d \in 0..9 : ToString(d) = ds[Len(ds)])

RECURSIVE Pow10(_)
Pow10(n) == IF n = 0 THEN 1 ELSE 10 * Pow10(n - 1)

\* A decimal numeral \d+\.?\d* as the exact fraction num / den: the digits
\* without the point over 10^(number of digits after the point)
Numeral(text) ==
    LET dot == Find(text, <<".">>)
        int == IF dot = 0 THEN text ELSE SubSeq(text, 1, dot - 1)
        frac == IF dot = 0 THEN <<>> ELSE SubSeq(text, dot + 1, Len(text))
    IN  [num |-> DigitsToNat(int \o frac), den |-> Pow10(Len(frac))]

\* float(text) for a numeral \d+\.?\d*: the float nearest to its value
FloatOfStr(text) ==
    LET q == Numeral(text)
    IN  IF q.num = 0 THEN FloatZero ELSE DivRound(NatToBits(q.num), 0, q.den)

RECURSIVE NatToDigits(_)
NatToDigits(n) ==
    IF n < 10 THEN <<ToString(n)>> ELSE Append(NatToDigits(n \div 10), ToString(n % 10))

\* the literal 4.184 of line 781
KcalToKj == FloatOfStr(<<"4", ".", "1", "8", "4">>)

---------------------------------------------------------------------------
(* The nutrition panel: a dict from nutrient keys to str *)

NutrientKeys == <<"energy", "protein", "fat", "carbohydrate", "sugar", "sodium">>

\* lines 688-708: patterns
InlinePatterns ==
    [
    energy |-> <<
    \* line 690: r'能量[:：\s]*(\d+\.?\d*)\s*(kJ|千焦|kcal|千卡)'
    Cat(<<Lit(<<"neng2", "liang4">>), Star(In({":",
    "colon_fw"} \cup Space)), Grp(1, Cat(<<Plus(In(Digit)),
    Opt(Lit(<<".">>)), Star(In(Digit))>>)), Star(In(Space)), Grp(2,
    Alt(<<Lit(<<"k", "J">>), Lit(<<"qian1", "jiao1">>), Lit(<<"k", "c",
    "a", "l">>), Lit(<<"qian1", "ka3">>)>>))>>),
    \* line 691: r'能量\s*(\d+\.?\d*)\s*(千焦|kJ)'
    Cat(<<Lit(<<"neng2", "liang4">>), Star(In(Space)), Grp(1,
    Cat(<<Plus(In(Digit)), Opt(Lit(<<".">>)), Star(In(Digit))>>)),
    Star(In(Space)), Grp(2, Alt(<<Lit(<<"qian1", "jiao1">>), Lit(<<"k",
    "J">>)>>))>>)
    >>,
    protein |-> <<
    \* line 694: r'蛋白质[:：\s]*(\d+\.?\d*)\s*g'
    Cat(<<Lit(<<"dan4", "bai2", "zhi4_quality">>), Star(In({":",
    "colon_fw"} \cup Space)), Grp(1, Cat(<<Plus(In(Digit)),
    Opt(Lit(<<".">>)), Star(In(Digit))>>)), Star(In(Space)), Lit(<<"g">>)>>)
    >>,
    fat |-> <<
    \* line 697: r'脂肪[:：\s]*(\d+\.?\d*)\s*g'
    Cat(<<Lit(<<"zhi1_fat", "fang2">>), Star(In({":",
    "colon_fw"} \cup Space)), Grp(1, Cat(<<Plus(In(Digit)),
    Opt(Lit(<<".">>)), Star(In(Digit))>>)), Star(In(Space)), Lit(<<"g">>)>>)
    >>,
    carbohydrate |-> <<
    \* line 700: r'碳水化合物[:：\s]*(\d+\.?\d*)\s*g'
    Cat(<<Lit(<<"tan4", "shui3", "hua4_chem", "he2_join", "wu4">>),
    Star(In({":", "colon_fw"} \cup Space)), Grp(1, Cat(<<Plus(In(Digit)),
    Opt(Lit(<<".">>)), Star(In(Digit))>>)), Star(In(Space)), Lit(<<"g">>)>>)
    >>,
    sugar |-> <<
    \* line 703: r'糖[:：\s]*(\d+\.?\d*)\s*g'
    Cat(<<Lit(<<"tang2">>), Star(In({":", "colon_fw"} \cup Space)), Grp(1,
    Cat(<<Plus(In(Digit)), Opt(Lit(<<".">>)), Star(In(Digit))>>)),
    Star(In(Space)), Lit(<<"g">>)>>)
    >>,
    sodium |-> <<
    \* line 706: r'钠[:：\s]*(\d+\.?\d*)\s*mg'
    Cat(<<Lit(<<"na4">>), Star(In({":", "colon_fw"} \cup Space)), Grp(1,
    Cat(<<Plus(In(Digit)), Opt(Lit(<<".">>)), Star(In(Digit))>>)),
    Star(In(Space)), Lit(<<"m", "g">>)>>)
    >>
    ]

\* lines 715-717: value = match.group(1); unit = match.group(2) if the pattern
\* has more than one group, else ''; f"{value}{unit}"
InlineValue(full_text_, m) ==
    Group(full_text_, m, 1).v
        \o (IF Len(m.caps) > 1 THEN Group(full_text_, m, 2).v ELSE <<>>)

\* lines 711-718: nutrition[key] for every key one of whose patterns matched,
\* first[key] being the first pattern of the key that matches and its match
InlineFound(full_text_, first) ==
    [key \in {k \in DOMAIN first : first[k].i # 0} |->
        InlineValue(full_text_, first[key].m)]

\* lines 711-718: the inline pattern pass
InlineNutrition(full_text_) ==
    InlineFound(full_text_,
                [key \in DOMAIN InlinePatterns |->
                    FirstMatch(InlinePatterns[key], full_text_)])

\* '能量', '蛋白质', '脂肪', '碳水化合物', '糖', '钠'
nutrition_keywords ==
    <<<<"neng2", "liang4">>, <<"dan4", "bai2", "zhi4_quality">>, <<"zhi1_fat", "fang2">>, <<"tan4", "shui3", "hua4_chem", "he2_join", "wu4">>, <<"tang2">>, <<"na4">>>>

\* lines 742-749: key_map, by the position of the keyword in nutrition_keywords
key_map == NutrientKeys

\* lines 736-752: the line loop assigns nutrition[en_key] whenever the keyword
\* is in the line and the pattern matches it, so the last such line wins
TableHits(text_lines_, keyword) ==
    {i \in 1..Len(text_lines_) :
        /\ Contains(text_lines_[i], keyword)
        /\ Search(TablePattern(keyword), text_lines_[i]).ok}

\* line 752: f"{match.group(1)}{match.group(2)}"
TableValue(line, keyword) ==
    LET m == Search(TablePattern(keyword), line)
    IN  Group(line, m, 1).v \o Group(line, m, 2).v

extract_nutrition_from_table(text_lines_) ==
    LET found == {j \in 1..Len(nutrition_keywords) :
                     TableHits(text_lines_, nutrition_keywords[j]) # {}}
    IN  [en_key \in {key_map[j] : j \in found} |->
            LET j == CHOOSE j \in found : key_map[j] = en_key
                keyword == nutrition_keywords[j]
            IN  TableValue(text_lines_[SetMax(TableHits(text_lines_, keyword))],
                           keyword)]

\* lines 760-767: nrv_values
nrv_values ==
    [energy |-> 8400, protein |-> 60, fat |-> 60, carbohydrate |-> 300,
     sugar |-> 50, sodium |-> 2000]

\* f'{key}NRV'
NrvKey ==
    [energy |-> "energyNRV", protein |-> "proteinNRV", fat |-> "fatNRV",
     carbohydrate |-> "carbohydrateNRV", sugar |-> "sugarNRV",
     sodium |-> "sodiumNRV"]

\* 'kcal', '千卡'
KcalUnits == {<<"k", "c", "a", "l">>, <<"qian1", "ka3">>}

\* lines 774-781: value = float(value_match.group(1)), times 4.184 when the
\* first unit token found in the text is kcal or 千卡
NrvValue(text, value_match) ==
    LET value == FloatOfStr(Group(text, value_match, 1).v)
        unit_match == Search(NrvUnitPattern, text)
    IN  IF unit_match.ok /\ Group(text, unit_match, 1).v \in KcalUnits
        THEN FloatMul(value, KcalToKj)
        ELSE value

\* lines 784-787: int((value / nrv_ref) * 100)
NrvPercent(value, nrv_ref) ==
    FloatToInt(FloatMul(FloatDivInt(value, nrv_ref), FloatOfInt(100)))

\* A variant of HasNrv that takes an amount of 0 for a missing one
HasNrvWhenPositive(nutrition_, key) ==
    /\ key \in DOMAIN nutrition_
    /\ nutrition_[key] # <<>>
    /\ nutrition_[key][1] # "0"
    /\ Search(NrvValuePattern, nutrition_[key]).ok

\* lines 770-773: key in nutrition and nutrition[key], and a number is found
HasNrv(nutrition_, key) ==
    /\ key \in DOMAIN nutrition_
    /\ nutrition_[key] # <<>>
    /\ Search(NrvValuePattern, nutrition_[key]).ok

\* lines 774-789: f"{nrv_percent}%"
NrvText(text, nrv_ref) ==
    NatToDigits(NrvPercent(NrvValue(text, Search(NrvValuePattern, text)), nrv_ref))
        \o <<"%">>

\* line 789: nutrition[f'{key}NRV'] = f"{nrv_percent}%" for the keys given
NrvAdded(nutrition_, keys) ==
    [x \in DOMAIN nutrition_ \cup {NrvKey[key] : key \in keys} |->
        IF x \in DOMAIN nutrition_ THEN nutrition_[x]
        ELSE NrvText(nutrition_[CHOOSE key \in keys : NrvKey[key] = x],
                     nrv_values[CHOOSE key \in keys : NrvKey[key] = x])]

\* lines 769-791: for key, nrv_ref in nrv_values.items()
calculate_nrv(nutrition_) ==
    NrvAdded(nutrition_, {key \in DOMAIN nrv_values : HasNrv(nutrition_, key)})

\* A variant of TableIfEmpty in which the table scan fills in whatever the
\* inline pass did not find
TableFillsIn(text_lines_, nutrition_) ==
    [key \in DOMAIN nutrition_ \cup DOMAIN extract_nutrition_from_table(text_lines_) |->
        IF key \in DOMAIN nutrition_ THEN nutrition_[key]
        ELSE extract_nutrition_from_table(text_lines_)[key]]

\* lines 721-722: if not nutrition: nutrition = extract_nutrition_from_table(...)
TableIfEmpty(text_lines_, nutrition_) ==
    IF DOMAIN nutrition_ = {} THEN extract_nutrition_from_table(text_lines_)
    ELSE nutrition_

\* lines 725-726: if nutrition: nutrition = calculate_nrv(nutrition)
NrvIfAny(nutrition_) ==
    IF DOMAIN nutrition_ # {} THEN calculate_nrv(nutrition_) ELSE nutrition_

\* lines 710-728
extract_nutrition(text_lines_, full_text_) ==
    Dict(NrvIfAny(TableIfEmpty(text_lines_, InlineNutrition(full_text_))))

---------------------------------------------------------------------------
(* The Line Corpus and the assembler *)

\* line 356: confidence > 0.1, confidences counted in thousandths
ConfidenceThreshold == 100

\* A variant of Survives with confidence >= 0.1
SurvivesAtThreshold(region) ==
    region.confidence >= ConfidenceThreshold /\ Strip(region.text) # <<>>

\* line 356: confidence > 0.1 and text.strip()
Survives(region) ==
    region.confidence > ConfidenceThreshold /\ Strip(region.text) # <<>>

RECURSIVE SurvivingLines(_, _)
\* lines 344-357: the trimmed text of every region that survives, in order
SurvivingLines(regions, i) ==
    IF i > Len(regions) THEN <<>>
    ELSE IF Survives(regions[i])
         THEN <<Strip(regions[i].text)>> \o SurvivingLines(regions, i + 1)
         ELSE SurvivingLines(regions, i + 1)

\* The OCR result is [shape, regions]: shape "None" is Python's None, "empty"
\* the empty list, "page_None" the list [None] the engine returns for an image
\* without text (iterating it raises TypeError, which line 362 catches), and
\* "page" the list [regions], each region [box, (text, confidence)].
extract_text_lines(ocr) ==
    IF ocr.shape \in {"None", "empty", "page_None"} THEN <<>>
    ELSE SurvivingLines(ocr.regions, 1)

\* lines 381-427: the dict the extractors fill
ExtractAll(text_lines_, full_text_) ==
    [name |-> extract_food_name(text_lines_, full_text_),
     ingredients |-> extract_ingredients(text_lines_, full_text_),
     netContent |-> extract_net_content(full_text_),
     specification |-> extract_specification(full_text_),
     producer |-> extract_producer(text_lines_, full_text_),
     address |-> extract_address(text_lines_, full_text_),
     contactInfo |-> extract_contact_info(full_text_),
     productionDate |-> extract_production_date(full_text_),
     shelfLife |-> extract_shelf_life(full_text_),
     storageConditions |-> extract_storage_conditions(text_lines_, full_text_),
     foodProductionLicenseNumber |-> extract_license_number(full_text_),
     productStandardCode |-> extract_standard_code(full_text_),
     qualityGrade |-> extract_quality_grade(full_text_),
     allergens |-> extract_allergens(full_text_),
     nutrition |-> extract_nutrition(text_lines_, full_text_),
     warning |-> extract_warning(text_lines_, full_text_),
     irradiated |-> extract_irradiated(full_text_),
     commodityBarcode |-> extract_barcode(full_text_)]

\* A variant of Clean that leaves None in place
CleanKeepsNone(v) == v

\* line 430: v if v is not None else ''
Clean(v) == IF v.k = "None" THEN Str(<<>>) ELSE v

\* lines 381-432: the exception of the extractor that raised, which nothing in
\* parse_food_label catches, or else the dict with every value cleaned
Assembled(raw) ==
    IF \E f \in DOMAIN raw : raw[f].k = "raise"
    THEN raw[CHOOSE f \in DOMAIN raw : raw[f].k = "raise"]
    ELSE Dict([f \in DOMAIN raw |-> Clean(raw[f])])

\* A variant of FullText that joins with a space
FullTextSpaced(text_lines_) == Join(<<" ">>, text_lines_)

\* line 379
FullText(text_lines_) == Join(<<"\n">>, text_lines_)

\* lines 368-432
parse_food_label(text_lines_) ==
    Assembled(ExtractAll(text_lines_, FullText(text_lines_)))

---------------------------------------------------------------------------
(* The inputs: what the OCR engine hands to extract_text_lines (line 169),  *)
(* and the texts the extractors are applied to                              *)

\* Regions of a generated page
MaxRegions == 3
\* Runs of parse_food_label on the same text lines
MaxRuns == 2
\* The largest nutrient amount on a generated nutrition line
MaxAmount == 30
\* Chunks of a generated barcode text
MaxChunks == 3

\* Requests served by the mock service
MaxRequests == 3

\* src/main_mock.py lines 47-95: the two sample labels, each with its name,
\* netContent and shelfLife ('全麦吐司面包', '400g', '7天' and '特级生抽酱油',
\* '500mL', '18个月'); the first has the commodityBarcode '6913579246801', the
\* second has none.  The other fields, which no code reads or writes one by
\* one, are left out.
MOCK_DATA ==
    << [name |-> <<"quan2", "mai4", "tu3", "si1", "mian4", "bao1">>,
        netContent |-> <<"4", "0", "0", "g">>,
        shelfLife |-> <<"7", "tian1">>,
        commodityBarcode |-> <<"6", "9", "1", "3", "5", "7", "9", "2", "4", "6", "8", "0", "1">>],
       [name |-> <<"te4", "ji2", "sheng1", "chou1", "jiang4", "you2">>,
        netContent |-> <<"5", "0", "0", "m", "L">>,
        shelfLife |-> <<"1", "8", "ge4", "yue4">>] >>

\* line 345: a region is [box, (text, confidence)]; the box is never read.
\* Confidences are counted in thousandths.
Region(text, confidence) == [text |-> text, confidence |-> confidence]

\* '全麦吐司面包', '配料：全麦粉、小麦粉、水', '净含量：400g', 'XX烘焙食品有限公司',
\* '生产日期：2025-04-20', '保质期：7天'
ExampleLines ==
    << <<"quan2", "mai4", "tu3", "si1", "mian4", "bao1">>,
       <<"pei4", "liao4", "colon_fw", "quan2", "mai4", "fen3", "dun_comma",
         "xiao3", "mai4", "fen3", "dun_comma", "shui3">>,
       <<"jing4", "han2", "liang4", "colon_fw", "4", "0", "0", "g">>,
       <<"X", "X", "hong1", "bei4", "shi2", "pin3", "you3", "xian4", "gong1", "si1">>,
       <<"sheng1", "chan3", "ri4", "qi1", "colon_fw",
         "2", "0", "2", "5", "-", "0", "4", "-", "2", "0">>,
       <<"bao3", "zhi4_quality", "qi1", "colon_fw", "7", "tian1">> >>

\* Label texts as the engine reads them, one region each
LabelCorpora ==
    { ExampleLines,
      \* '生产日期见封口'
      << <<"sheng1", "chan3", "ri4", "qi1", "jian4", "feng1", "kou3">> >>,
      \* '生产日期：见包装', '保质期:12个月'
      << <<"sheng1", "chan3", "ri4", "qi1", "colon_fw", "jian4", "bao1", "zhuang1">>,
         <<"bao3", "zhi4_quality", "qi1", ":", "1", "2", "ge4", "yue4">> >>,
      \* '食品名称：全麦面包', '条码:6912345678901'
      << <<"shi2", "pin3", "ming2", "cheng1", "colon_fw", "quan2", "mai4", "mian4", "bao1">>,
         <<"tiao2", "ma3", ":", "6", "9", "1", "2", "3", "4", "5", "6", "7", "8", "9", "0", "1">> >>,
      \* '能量 1450kJ 蛋白质10.2g 脂肪5.6g', '钠350mg'
      << <<"neng2", "liang4", " ", "1", "4", "5", "0", "k", "J", " ",
           "dan4", "bai2", "zhi4_quality", "1", "0", ".", "2", "g", " ",
           "zhi1_fat", "fang2", "5", ".", "6", "g">>,
         <<"na4", "3", "5", "0", "m", "g">> >>,
      \* '地址：北京市海淀区', '警示：小心'
      << <<"di4", "zhi3", "colon_fw", "bei3", "jing1_cap", "shi4_city", "hai3",
           "dian4_lake", "qu1">>,
         <<"jing3", "shi4_show", "colon_fw", "xiao3", "xin1">> >> }

\* Texts of single fields as labels print them, one corpus per variation
FieldCorpora ==
    \* license numbers: 'SC' or 'QS' and the first 12, 13 or 14 digits of
    \* 10435792468013 or 30435792468013, bare or after '生产许可证编号：'
    { <<label \o prefix \o <<first>>
            \o SubSeq(<<"0", "4", "3", "5", "7", "9", "2", "4", "6", "8", "0", "1", "3">>,
                      1, n - 1)>> :
        label \in {<<>>, <<"sheng1", "chan3", "xu3", "ke3", "zheng4", "bian1", "hao4",
                          "colon_fw">>},
        prefix \in {<<"S", "C">>, <<"Q", "S">>},
        first \in {"1", "3"},
        n \in 12..14 }
    \* shelf lives: '保质期', a colon, 7 or 18 and 个月, 月, 天, 年 or 周, with or
    \* without a space around the number
    \cup { <<<<"bao3", "zhi4_quality", "qi1", colon>> \o gap \o number \o gap \o unit>> :
        colon \in {":", "colon_fw"},
        gap \in {<<>>, <<" ">>},
        number \in {<<"7">>, <<"1", "8">>},
        unit \in {<<"ge4", "yue4">>, <<"yue4">>, <<"tian1">>, <<"nian2">>, <<"zhou1">>} }
    \* net contents: '净含量', a colon, 400 or 1.5 and g, kg, mL, L, 克, 千克 or 毫升
    \cup { <<<<"jing4", "han2", "liang4", colon>> \o gap \o number \o gap \o unit>> :
        colon \in {":", "colon_fw"},
        gap \in {<<>>, <<" ">>},
        number \in {<<"4", "0", "0">>, <<"1", ".", "5">>},
        unit \in {<<"g">>, <<"k", "g">>, <<"m", "L">>, <<"L">>, <<"ke4">>,
                  <<"qian1", "ke4">>, <<"hao2", "sheng1_litre">>} }
    \* production dates: '生产日期', a colon and 2025-04-20, 2025/04/20,
    \* 2025年04月20日, 2025年04月20 or 2025.04.20, alone, after the line
    \* '保质期：7天', or before the line '生产日期：2024年12月31日'
    \cup { before \o <<<<"sheng1", "chan3", "ri4", "qi1", colon>> \o gap
                        \o <<"2", "0", "2", "5">> \o seps[1] \o <<"0", "4">>
                        \o seps[2] \o <<"2", "0">> \o seps[3]>> \o after :
        colon \in {":", "colon_fw"},
        gap \in {<<>>, <<" ">>},
        seps \in {<< <<"-">>, <<"-">>, <<>> >>, << <<"/">>, <<"/">>, <<>> >>,
                  << <<"nian2">>, <<"yue4">>, <<"ri4">> >>,
                  << <<"nian2">>, <<"yue4">>, <<>> >>,
                  << <<".">>, <<".">>, <<>> >>},
        before \in {<<>>, << <<"bao3", "zhi4_quality", "qi1", "colon_fw", "7", "tian1">> >>},
        after \in {<<>>, << <<"sheng1", "chan3", "ri4", "qi1", "colon_fw", "2", "0", "2", "4",
                              "nian2", "1", "2", "yue4", "3", "1", "ri4">> >>} }
    \* ingredient lists, short and long, with lines of other fields after them
    \cup {
      \* '配料：水、大豆', '牛奶、鸡蛋、花生', '保质期：7天'
      << <<"pei4", "liao4", "colon_fw", "shui3", "dun_comma", "da4", "dou4">>,
         <<"niu2", "nai3", "dun_comma", "ji1", "dan4", "dun_comma", "hua1", "sheng1">>,
         <<"bao3", "zhi4_quality", "qi1", "colon_fw", "7", "tian1">> >>,
      \* '配料：全麦粉、小麦粉、水、大豆、牛奶', '净含量：400g'
      << <<"pei4", "liao4", "colon_fw", "quan2", "mai4", "fen3", "dun_comma", "xiao3", "mai4", "fen3", "dun_comma", "shui3", "dun_comma", "da4", "dou4", "dun_comma", "niu2", "nai3">>,
         <<"jing4", "han2", "liang4", "colon_fw", "4", "0", "0", "g">> >>,
      \* '配料:水', '大豆', '牛奶', '鸡蛋', '花生', '芝麻'
      << <<"pei4", "liao4", ":", "shui3">>,
         <<"da4", "dou4">>,
         <<"niu2", "nai3">>,
         <<"ji1", "dan4">>,
         <<"hua1", "sheng1">>,
         <<"zhi1", "ma2">> >>,
      \* '全麦面包', '配料：水', '生产日期：2025-04-20', '大豆'
      << <<"quan2", "mai4", "mian4", "bao1">>,
         <<"pei4", "liao4", "colon_fw", "shui3">>,
         <<"sheng1", "chan3", "ri4", "qi1", "colon_fw", "2", "0", "2", "5", "-", "0", "4", "-", "2", "0">>,
         <<"da4", "dou4">> >> }
    \* producers: a producer keyword, a colon and '北京食品厂' as the first, a
    \* middle or the last line, beside '全麦面包', 'XX烘焙食品有限公司', '保质期：7天'
    \cup { before \o <<ProducerKeywords[j] \o <<colon>>
                        \o <<"bei3", "jing1_cap", "shi2", "pin3", "chang3">>>> \o after :
        j \in 1..Len(ProducerKeywords),
        colon \in {":", "colon_fw"},
        before \in {<<>>, << <<"quan2", "mai4", "mian4", "bao1">> >>,
                    << <<"quan2", "mai4", "mian4", "bao1">>,
                       <<"X", "X", "hong1", "bei4", "shi2", "pin3", "you3", "xian4", "gong1", "si1">> >>},
        after \in {<<>>, << <<"bao3", "zhi4_quality", "qi1", "colon_fw", "7", "tian1">> >>} }

\* A page the engine is sure of: every region at confidence 0.95
Confident(lines) == [i \in 1..Len(lines) |-> Region(lines[i], 950)]

\* A page with padded, blank and doubtful regions among the good ones:
\* '\t全麦吐司面包 ' 0.99, '净含量：400g' 0.1, '  ' 0.9, '保质期：7天\t' 0.101,
\* '生产日期见封口' 0.05
NoisyPage ==
    << Region(<<"\t", "quan2", "mai4", "tu3", "si1", "mian4", "bao1", " ">>, 990),
       Region(<<"jing4", "han2", "liang4", "colon_fw", "4", "0", "0", "g">>, 100),
       Region(<<" ", " ">>, 900),
       Region(<<"bao3", "zhi4_quality", "qi1", "colon_fw", "7", "tian1", "\t">>, 101),
       Region(<<"sheng1", "chan3", "ri4", "qi1", "jian4", "feng1", "kou3">>, 50) >>

\* The regions generated pages are made of:
\* ' 保质期：7天' 0.95, '净含量：400g ' 0.101, '净含量：400g ' 0.1,
\* '全麦吐司面包' 0.05, '  ' 0.95, '保质期：7天' 0.0
RegionPool ==
    { Region(<<" ", "bao3", "zhi4_quality", "qi1", "colon_fw", "7", "tian1">>, 950),
      Region(<<"jing4", "han2", "liang4", "colon_fw", "4", "0", "0", "g", " ">>, 101),
      Region(<<"jing4", "han2", "liang4", "colon_fw", "4", "0", "0", "g", " ">>, 100),
      Region(<<"quan2", "mai4", "tu3", "si1", "mian4", "bao1">>, 50),
      Region(<<" ", " ">>, 950),
      Region(<<"bao3", "zhi4_quality", "qi1", "colon_fw", "7", "tian1">>, 0) }

\* Every page of at most MaxRegions regions of the pool
GeneratedPages == UNION {[1..n -> RegionPool] : n \in 0..MaxRegions}

\* line 169: what engine.ocr returns
OcrResults ==
    {[shape |-> s, regions |-> <<>>] : s \in {"None", "empty", "page_None"}}
        \cup {[shape |-> "page", regions |-> r] :
                 r \in GeneratedPages \cup {NoisyPage}
                           \cup {Confident(lines) :
                                    lines \in LabelCorpora \cup FieldCorpora}}

\* The unit a label prints after the amount of nutrient j of nutrition_keywords,
\* and units the table scan also accepts:
\* kJ, kcal, 千卡, 千焦 / g (mg for 钠), 克 (毫克 for 钠), kcal
NutritionUnits(j) ==
    IF j = 1 THEN {<<"k", "J">>, <<"k", "c", "a", "l">>, <<"qian1", "ka3">>,
                   <<"qian1", "jiao1">>}
    ELSE IF j = 6 THEN {<<"m", "g">>, <<"hao2", "ke4">>, <<"k", "c", "a", "l">>}
    ELSE {<<"g">>, <<"ke4">>, <<"k", "c", "a", "l">>}

\* A line of a nutrition table: keyword, a space, the amount, the unit
NutritionLine(j, amount, unit) ==
    nutrition_keywords[j] \o <<" ">> \o NatToDigits(amount) \o unit

\* Nutrition panels as labels print them:
\* '能量 1450kJ 蛋白质10.2g 脂肪5.6g' / '钠350mg' / '能量:200kcal' /
\* '碳水化合物: 45.5g', '糖 29g' / '营养成分表' / '蛋白质 10克', '蛋白质 12克' /
\* '营养成分表', '能量 200千卡', '脂肪 5.6克' / '蛋白质 10g', '脂肪 5克' /
\* '脂肪 5克', '钠 3毫克' / '能量 1450kJ 25%' / '蛋白质 10g NRV 99%'
NutritionExamples ==
    { << <<"neng2", "liang4", " ", "1", "4", "5", "0", "k", "J", " ",
           "dan4", "bai2", "zhi4_quality", "1", "0", ".", "2", "g", " ",
           "zhi1_fat", "fang2", "5", ".", "6", "g">> >>,
      << <<"na4", "3", "5", "0", "m", "g">> >>,
      << <<"neng2", "liang4", ":", "2", "0", "0", "k", "c", "a", "l">> >>,
      << <<"tan4", "shui3", "hua4_chem", "he2_join", "wu4", ":", " ",
           "4", "5", ".", "5", "g">>,
         <<"tang2", " ", "2", "9", "g">> >>,
      << <<"ying2", "yang3", "cheng2", "fen4", "biao3">> >>,
      << <<"dan4", "bai2", "zhi4_quality", " ", "1", "0", "ke4">>,
         <<"dan4", "bai2", "zhi4_quality", " ", "1", "2", "ke4">> >>,
      << <<"ying2", "yang3", "cheng2", "fen4", "biao3">>,
         <<"neng2", "liang4", " ", "2", "0", "0", "qian1", "ka3">>,
         <<"zhi1_fat", "fang2", " ", "5", ".", "6", "ke4">> >>,
      << <<"dan4", "bai2", "zhi4_quality", " ", "1", "0", "g">>,
         <<"zhi1_fat", "fang2", " ", "5", "ke4">> >>,
      << <<"zhi1_fat", "fang2", " ", "5", "ke4">>,
         <<"na4", " ", "3", "hao2", "ke4">> >>,
      << <<"neng2", "liang4", " ", "1", "4", "5", "0", "k", "J", " ", "2", "5", "%">> >>,
      << <<"dan4", "bai2", "zhi4_quality", " ", "1", "0", "g", " ", "N", "R", "V", " ", "9", "9", "%">> >> }

\* The text lines extract_nutrition is applied to
NutritionCorpora ==
    NutritionExamples
        \cup UNION {{<<NutritionLine(j, amount, unit)>> :
                        amount \in 0..MaxAmount, unit \in NutritionUnits(j)} :
                    j \in 1..Len(nutrition_keywords)}

\* What barcode texts are made of: '6912345678901', '6998765432109',
\* '1234567890123', '条码:', '条码：', ' ', '69'
BarcodeChunks ==
    { <<"6", "9", "1", "2", "3", "4", "5", "6", "7", "8", "9", "0", "1">>,
      <<"6", "9", "9", "8", "7", "6", "5", "4", "3", "2", "1", "0", "9">>,
      <<"1", "2", "3", "4", "5", "6", "7", "8", "9", "0", "1", "2", "3">>,
      <<"tiao2", "ma3", ":">>,
      <<"tiao2", "ma3", "colon_fw">>,
      <<" ">>,
      <<"6", "9">> }

\* The texts extract_barcode is applied to: at most MaxChunks chunks in a row
BarcodeTexts ==
    {Join(<<>>, chunks) :
        chunks \in UNION {[1..n -> BarcodeChunks] : n \in 0..MaxChunks}}

---------------------------------------------------------------------------
(* One request to /ocr, from the OCR result on (lines 169-219) *)

Init ==
    /\ pc = "ocr"
    /\ ocr_result \in OcrResults
    /\ text_lines = <<>>
    /\ full_text = <<>>
    /\ food_label = None
    /\ prev_label = None
    /\ runs = 0
    /\ nutrition = None
    /\ commodityBarcode = None
    /\ img_data = None
    /\ response = None
    /\ mock_data = MOCK_DATA

\* line 189: text_lines = extract_text_lines(ocr_result)
ExtractTextLines ==
    /\ pc = "ocr"
    /\ text_lines' = extract_text_lines(ocr_result)
    /\ pc' = "lines"
    /\ UNCHANGED <<img_data, response, mock_data, ocr_result, full_text,
                   food_label, prev_label, runs, nutrition, commodityBarcode>>

\* A variant of ParseFoodLabel in which parsing consumes the first text line
ParseFoodLabelConsuming ==
    /\ pc \in {"lines", "parsed"}
    /\ runs < MaxRuns
    /\ full_text' = FullText(text_lines)
    /\ food_label' = parse_food_label(text_lines)
    /\ prev_label' = food_label
    /\ runs' = runs + 1
    /\ pc' = IF food_label'.k = "raise" THEN "raised" ELSE "parsed"
    /\ text_lines' = IF text_lines = <<>> THEN <<>> ELSE Tail(text_lines)
    /\ UNCHANGED <<img_data, response, mock_data, ocr_result, nutrition,
                   commodityBarcode>>

\* line 200: food_label = parse_food_label(text_lines), which reads text_lines
\* and assigns nothing but its own locals; an exception leaves the try block
\* (line 212).  The call is repeated on the same list up to MaxRuns times, the
\* label of the run before kept in prev_label.
ParseFoodLabel ==
    /\ pc \in {"lines", "parsed"}
    /\ runs < MaxRuns
    /\ full_text' = FullText(text_lines)
    /\ food_label' = parse_food_label(text_lines)
    /\ prev_label' = food_label
    /\ runs' = runs + 1
    /\ pc' = IF food_label'.k = "raise" THEN "raised" ELSE "parsed"
    /\ UNCHANGED <<img_data, response, mock_data, ocr_result, text_lines,
                   nutrition, commodityBarcode>>

Next == ExtractTextLines \/ ParseFoodLabel

Spec == Init /\ [][Next]_vars

---------------------------------------------------------------------------
(* extract_nutrition applied to the lines of a nutrition panel *)

NutritionInit ==
    /\ pc = "lines"
    /\ ocr_result = [shape |-> "page", regions |-> <<>>]
    /\ text_lines \in NutritionCorpora
    /\ full_text = FullText(text_lines)
    /\ food_label = None
    /\ prev_label = None
    /\ runs = 0
    /\ nutrition = None
    /\ commodityBarcode = None
    /\ img_data = None
    /\ response = None
    /\ mock_data = MOCK_DATA

\* line 417: extract_nutrition(text_lines, full_text)
ExtractNutrition ==
    /\ pc = "lines"
    /\ nutrition' = extract_nutrition(text_lines, full_text)
    /\ pc' = "nutrition"
    /\ UNCHANGED <<img_data, response, mock_data, ocr_result, text_lines,
                   full_text, food_label, prev_label, runs, commodityBarcode>>

SpecNutrition == NutritionInit /\ [][ExtractNutrition]_vars

---------------------------------------------------------------------------
(* extract_barcode applied to a text *)

BarcodeInit ==
    /\ pc = "text"
    /\ ocr_result = [shape |-> "page", regions |-> <<>>]
    /\ text_lines = <<>>
    /\ full_text \in BarcodeTexts
    /\ food_label = None
    /\ prev_label = None
    /\ runs = 0
    /\ nutrition = None
    /\ commodityBarcode = None
    /\ img_data = None
    /\ response = None
    /\ mock_data = MOCK_DATA

\* line 426: extract_barcode(full_text)
ExtractBarcode ==
    /\ pc = "text"
    /\ commodityBarcode' = extract_barcode(full_text)
    /\ pc' = "barcode"
    /\ UNCHANGED <<img_data, response, mock_data, ocr_result, text_lines,
                   full_text, food_label, prev_label, runs, nutrition>>

SpecBarcode == BarcodeInit /\ [][ExtractBarcode]_vars

---------------------------------------------------------------------------
(* One whole request to /ocr: download, OCR, extraction, response *)

\* lines 222-268.  fetched is what requests.get and raise_for_status give: a
\* RequestException with its message, or the content with its size in MB.
\* A RequestException becomes Exception('图片下载失败: ' + message) (line 263);
\* content above 10 MB raises ValueError('图片过大: <size>.00MB') inside the
\* try, which becomes Exception('图片处理失败: ' + message) (line 266);
\* preprocess_image catches its own failures and returns bytes (line 319).
download_image(fetched) ==
    IF fetched.k = "RequestException"
    THEN Raise(<<"tu2", "pian4", "xia4", "zai3", "shi1", "bai4", ":", " ">>
                   \o fetched.message)
    ELSE IF fetched.megabytes > 10
    THEN Raise(<<"tu2", "pian4", "chu4", "li3", "shi1", "bai4", ":", " ",
                 "tu2", "pian4", "guo4", "da4", ":", " ">>
                   \o NatToDigits(fetched.megabytes) \o <<".", "0", "0", "M", "B">>)
    ELSE [k |-> "bytes", v |-> <<>>]

\* A variant of Responded whose try block ends before parse_food_label: an
\* exception of the parser leaves the handler
RespondedUncaught(img, ocr, label, elapsed) ==
    IF img.k = "raise"
    THEN [success |-> FALSE, data |-> None, error |-> Str(img.v),
          processingTime |-> [k |-> "float", v |-> elapsed]]
    ELSE IF ocr.shape = "raise"
    THEN [success |-> FALSE, data |-> None, error |-> Str(ocr.message),
          processingTime |-> [k |-> "float", v |-> elapsed]]
    ELSE IF label.k = "raise" THEN label
    ELSE [success |-> TRUE, data |-> label, error |-> None,
          processingTime |-> [k |-> "float", v |-> elapsed]]

\* lines 203-219: what the handler returns.  Whatever was raised in the try
\* block (by download_image, by the engine, by parse_food_label) is caught at
\* line 212 and reported with error = str(e); str(IndexError('no such
\* group')) is 'no such group'.  Fields not passed to FoodLabelResponse keep
\* their default None (lines 89-93).
Responded(img, ocr, label, elapsed) ==
    IF img.k = "raise"
    THEN [success |-> FALSE, data |-> None, error |-> Str(img.v),
          processingTime |-> [k |-> "float", v |-> elapsed]]
    ELSE IF ocr.shape = "raise"
    THEN [success |-> FALSE, data |-> None, error |-> Str(ocr.message),
          processingTime |-> [k |-> "float", v |-> elapsed]]
    ELSE IF label.k = "raise"
    THEN [success |-> FALSE, data |-> None,
          error |-> Str(<<"n", "o", " ", "s", "u", "c", "h", " ", "g", "r", "o", "u", "p">>),
          processingTime |-> [k |-> "float", v |-> elapsed]]
    ELSE [success |-> TRUE, data |-> label, error |-> None,
          processingTime |-> [k |-> "float", v |-> elapsed]]

RequestInit ==
    /\ pc = "request"
    /\ ocr_result = [shape |-> "unset", regions |-> <<>>]
    /\ text_lines = <<>>
    /\ full_text = <<>>
    /\ food_label = None
    /\ prev_label = None
    /\ runs = 0
    /\ nutrition = None
    /\ commodityBarcode = None
    /\ img_data = None
    /\ response = None
    /\ mock_data = MOCK_DATA

\* lines 131-219, the whole handler.  The download ends with a
\* RequestException (message '', 'timeout' or '404') or with content of 1, 10
\* or 11 MB; the engine (lines 166-169) raises with its message, or returns an
\* OCR result; the steps after a failed one are not run; the elapsed time is
\* 0 or 3 seconds.
RecognizeFoodLabel ==
    /\ pc = "request"
    /\ \E fetched \in {[k |-> "RequestException", message |-> m] :
                           m \in {<<>>, <<"t", "i", "m", "e", "o", "u", "t">>,
                                  <<"4", "0", "4">>}}
                      \cup {[k |-> "content", megabytes |-> n] : n \in {1, 10, 11}},
          engine \in {[shape |-> "raise", regions |-> <<>>, message |-> m] :
                          m \in {<<"e", "n", "g", "i", "n", "e">>,
                                 <<"n", "o", " ", "m", "o", "d", "e", "l">>}}
                     \cup OcrResults,
          elapsed \in {0, 3} :
          /\ img_data' = download_image(fetched)
          /\ ocr_result' = IF img_data'.k = "raise"
                           THEN [shape |-> "unset", regions |-> <<>>]
                           ELSE engine
          /\ text_lines' = IF ocr_result'.shape \in {"unset", "raise"} THEN <<>>
                           ELSE extract_text_lines(ocr_result')
          /\ full_text' = FullText(text_lines')
          /\ food_label' = IF ocr_result'.shape \in {"unset", "raise"} THEN None
                           ELSE parse_food_label(text_lines')
          /\ response' = Responded(img_data', ocr_result', food_label', elapsed)
    /\ pc' = "responded"
    /\ UNCHANGED <<prev_label, runs, nutrition, commodityBarcode, mock_data>>

SpecRequest == RequestInit /\ [][RecognizeFoodLabel]_vars

---------------------------------------------------------------------------
(* The mock service, src/main_mock.py: requests to /ocr one after another *)

MockInit ==
    /\ pc = "request"
    /\ ocr_result = [shape |-> "unset", regions |-> <<>>]
    /\ text_lines = <<>>
    /\ full_text = <<>>
    /\ food_label = None
    /\ prev_label = None
    /\ runs = 0
    /\ nutrition = None
    /\ commodityBarcode = None
    /\ img_data = None
    /\ response = None
    /\ mock_data = MOCK_DATA

\* src/main_mock.py lines 119-146, the whole handler: food_label =
\* random.choice(MOCK_DATA) is one of the dicts of the module-level list
\* itself, not a copy, so the assignment of line 137,
\* food_label['commodityBarcode'] = f"69{random.randint(100000000, 999999999)}",
\* writes into MOCK_DATA; the response carries that dict.  The elapsed time is
\* 2 or 3 seconds (line 131).
MockRecognizeFoodLabel ==
    /\ runs < MaxRequests
    /\ \E choice \in 1..Len(mock_data),
          number \in {100000000, 246813579, 500000000, 999999999},
          elapsed \in {2, 3} :
          /\ mock_data' =
                [mock_data EXCEPT ![choice] =
                    [key \in DOMAIN mock_data[choice] \cup {"commodityBarcode"} |->
                        IF key = "commodityBarcode"
                        THEN <<"6", "9">> \o NatToDigits(number)
                        ELSE mock_data[choice][key]]]
          /\ food_label' = Dict(mock_data'[choice])
          /\ response' = [success |-> TRUE, data |-> food_label', error |-> None,
                          processingTime |-> [k |-> "float", v |-> elapsed]]
    /\ runs' = runs + 1
    /\ pc' = "responded"
    /\ UNCHANGED <<ocr_result, text_lines, full_text, prev_label, nutrition,
                   commodityBarcode, img_data>>

SpecMock == MockInit /\ [][MockRecognizeFoodLabel]_vars

---------------------------------------------------------------------------
(* Properties of one request (Spec) *)

\* C1: whenever parse_food_label returns, the record has exactly the 18 keys
\* name, ingredients, netContent, specification, producer, address,
\* contactInfo, productionDate, shelfLife, storageConditions,
\* foodProductionLicenseNumber, productStandardCode, qualityGrade, allergens,
\* nutrition, warning, irradiated, commodityBarcode, and no value is None:
\* nutrition holds a mapping and every other field a string (the empty string
\* when the field was not recognized).
RecordHasEveryField ==
    pc = "parsed" =>
        /\ food_label.k = "dict"
        /\ DOMAIN food_label.v =
              {"name", "ingredients", "netContent", "specification", "producer",
               "address", "contactInfo", "productionDate", "shelfLife",
               "storageConditions", "foodProductionLicenseNumber",
               "productStandardCode", "qualityGrade", "allergens", "nutrition",
               "warning", "irradiated", "commodityBarcode"}
        /\ \A f \in DOMAIN food_label.v :
              food_label.v[f].k = IF f = "nutrition" THEN "dict" ELSE "str"

\* A record returned with a recognized field beside unrecognized ones
RecordWithEmptyFields ==
    /\ pc = "parsed"
    /\ food_label.v.netContent.v # <<>>
    /\ food_label.v.warning = Str(<<>>)
    /\ food_label.v.nutrition = Dict(EmptyDict)

\* C2: no field extractor ever raises, so parse_food_label always returns a
\* record: the request never leaves parse_food_label with an exception.
NoExtractorRaises == pc # "raised"

\* C3: when the OCR result is None or empty, or every region has confidence
\* at or below 0.1, extract_text_lines returns the empty list without
\* raising, and parse_food_label returns the record in which every string
\* field is the empty string and nutrition is the empty mapping.
DoubtfulPageGivesEmptyRecord ==
    (\/ ocr_result.shape # "page"
     \/ \A i \in DOMAIN ocr_result.regions : ocr_result.regions[i].confidence <= 100)
    => /\ pc # "raised"
       /\ pc # "ocr" => text_lines = <<>>
       /\ pc = "parsed" =>
             \A f \in DOMAIN food_label.v :
                 food_label.v[f] = IF f = "nutrition" THEN Dict(EmptyDict)
                                   ELSE Str(<<>>)

\* A page of two regions, none above 0.1 and one with text at exactly 0.1, parsed
DoubtfulPageParsed ==
    /\ pc = "parsed"
    /\ ocr_result.shape = "page"
    /\ Len(ocr_result.regions) = 2
    /\ \A i \in DOMAIN ocr_result.regions : ocr_result.regions[i].confidence <= 100
    /\ \E i \in DOMAIN ocr_result.regions :
          /\ ocr_result.regions[i].confidence = 100
          /\ \E p \in DOMAIN ocr_result.regions[i].text :
                ocr_result.regions[i].text[p] \notin Space

\* C4: extract_text_lines returns exactly the regions whose confidence is
\* strictly above 0.1 and whose trimmed text is not empty, each as its
\* trimmed text, in detection order (the k-th line is the k-th such region),
\* and fullText is these lines with one newline between neighbours.
LinesAreTheSurvivingRegions ==
    LET regions == ocr_result.regions
        Solid(t) == {p \in DOMAIN t : t[p] \notin {" ", "\t", "\n", "space_fw"}}
        Trimmed(t) == SubSeq(t, SetMin(Solid(t)), SetMax(Solid(t)))
        kept == {i \in DOMAIN regions :
                    regions[i].confidence > 100 /\ Solid(regions[i].text) # {}}
        Nth(k) == CHOOSE i \in kept : Cardinality({j \in kept : j <= i}) = k
        n == Len(text_lines)
        start[k \in 1..n + 1] ==
            IF k = 1 THEN 1 ELSE start[k - 1] + Len(text_lines[k - 1]) + 1
    IN  /\ (pc # "ocr" /\ ocr_result.shape = "page") =>
              /\ n = Cardinality(kept)
              /\ \A k \in 1..n : text_lines[k] = Trimmed(regions[Nth(k)].text)
        /\ pc \in {"parsed", "raised"} =>
              /\ Len(full_text) = IF n = 0 THEN 0 ELSE start[n + 1] - 2
              /\ \A k \in 1..n :
                    SubSeq(full_text, start[k], start[k + 1] - 2) = text_lines[k]
              /\ \A k \in 1..n - 1 : full_text[start[k + 1] - 1] = "\n"

\* The page with padded, blank and doubtful regions, parsed: two of its five
\* regions survive
NoisyPageParsed ==
    /\ pc = "parsed"
    /\ ocr_result.regions = NoisyPage
    /\ Len(text_lines) = 2

ExampleRecord ==
    (pc = "parsed" /\ text_lines = ExampleLines) =>
        /\ food_label.v.name =
              Str(<<"quan2", "mai4", "tu3", "si1", "mian4", "bao1">>)
        /\ food_label.v.netContent = Str(<<"4", "0", "0", "g">>)
        /\ food_label.v.producer =
              Str(<<"X", "X", "hong1", "bei4", "shi2", "pin3", "you3", "xian4",
                    "gong1", "si1">>)
        /\ food_label.v.productionDate =
              Str(<<"2", "0", "2", "5", "-", "0", "4", "-", "2", "0">>)
        /\ food_label.v.shelfLife = Str(<<"7", "tian1">>)

\* The example corpus, read from a page the engine is sure of, parsed once
ExampleParsed ==
    /\ pc = "parsed"
    /\ runs = 1
    /\ ocr_result.regions = Confident(ExampleLines)
    /\ text_lines = ExampleLines

---------------------------------------------------------------------------
(* Properties of extract_nutrition (SpecNutrition) *)

\* C7: every core nutrient extract_nutrition finds is stored as the number
\* immediately followed by its unit: energy ends in kJ, 千焦, kcal or 千卡,
\* protein, fat, carbohydrate and sugar end in g, sodium ends in mg.
NutrientsCarryTheirUnit ==
    pc = "nutrition" =>
        \A key \in DOMAIN nutrition.v \cap DOMAIN nrv_values :
            LET text == nutrition.v[key]
                units == IF key = "energy"
                         THEN {<<"k", "J">>, <<"qian1", "jiao1">>,
                               <<"k", "c", "a", "l">>, <<"qian1", "ka3">>}
                         ELSE IF key = "sodium" THEN {<<"m", "g">>}
                         ELSE {<<"g">>}
            IN  \E unit \in units :
                    /\ Len(text) > Len(unit)
                    /\ SubSeq(text, Len(text) - Len(unit) + 1, Len(text)) = unit
                    /\ \A p \in 1..Len(text) - Len(unit) :
                          text[p] \in Digit \cup {"."}

\* C8: for every nutrient of the panel, <nutrient>NRV is "<p>%" with
\* p = floor(value / reference * 100), value the leading number of the
\* nutrient's string and reference 8400 (energy), 60 (protein), 60 (fat),
\* 300 (carbohydrate), 50 (sugar), 2000 (sodium).  Stated for the strings
\* that name no kcal unit, where no conversion takes part.
NrvIsTheFloor ==
    pc = "nutrition" =>
        \A key \in DOMAIN nutrition.v \cap
                      {"energy", "protein", "fat", "carbohydrate", "sugar", "sodium"} :
            LET text == nutrition.v[key]
                reference == [energy |-> 8400, protein |-> 60, fat |-> 60,
                              carbohydrate |-> 300, sugar |-> 50,
                              sodium |-> 2000][key]
                digits == {p \in 1..Len(text) :
                              \A q \in 1..p : text[q] \in Digit \cup {"."}}
                value == Numeral(SubSeq(text, 1, SetMax(digits)))
                kcal == \E p \in 1..Len(text) - 1 :
                            \/ SubSeq(text, p, p + 1) = <<"qian1", "ka3">>
                            \/ /\ p + 3 <= Len(text)
                               /\ SubSeq(text, p, p + 3) = <<"k", "c", "a", "l">>
            IN  (digits # {} /\ ~kcal) =>
                    /\ NrvKey[key] \in DOMAIN nutrition.v
                    /\ nutrition.v[NrvKey[key]] =
                          NatToDigits((value.num * 100) \div (value.den * reference))
                              \o <<"%">>

\* C9: an energy value in kcal or 千卡 is multiplied by 4.184 before it is
\* compared with 8400; an energy value in kJ or 千焦, and every nutrient other
\* than energy, is compared with its reference without any conversion.
OnlyKcalEnergyIsConverted ==
    pc = "nutrition" =>
        \A key \in DOMAIN nutrition.v \cap DOMAIN nrv_values :
            LET text == nutrition.v[key]
                digits == {p \in 1..Len(text) :
                              \A q \in 1..p : text[q] \in Digit \cup {"."}}
                value == FloatOfStr(SubSeq(text, 1, SetMax(digits)))
                unit == SubSeq(text, SetMax(digits) + 1, Len(text))
                converted == key = "energy"
                                 /\ unit \in {<<"k", "c", "a", "l">>, <<"qian1", "ka3">>}
            IN  digits # {} =>
                    nutrition.v[NrvKey[key]] =
                        NatToDigits(NrvPercent(IF converted
                                               THEN FloatMul(value, KcalToKj)
                                               ELSE value,
                                               nrv_values[key]))
                            \o <<"%">>

\* C17: the table scan contributes only when the inline pattern pass found no
\* nutrient: the nutrient keys of the panel are those the inline pass finds
\* when it finds any, and those the table scan finds otherwise.
TableOnlyWhenInlineEmpty ==
    pc = "nutrition" =>
        DOMAIN nutrition.v \cap DOMAIN nrv_values =
            IF DOMAIN InlineNutrition(full_text) # {}
            THEN DOMAIN InlineNutrition(full_text)
            ELSE DOMAIN extract_nutrition_from_table(text_lines)

\* '营养成分表', '能量 200千卡', '脂肪 5.6克' or '蛋白质 10g', '脂肪 5克': the
\* inline pass finds one nutrient, the table scan would find 脂肪 as well,
\* and the panel has no fat
TableOnlyLineIgnored ==
    /\ pc = "nutrition"
    /\ DOMAIN InlineNutrition(full_text) # {}
    /\ "fat" \in DOMAIN extract_nutrition_from_table(text_lines)
    /\ "fat" \notin DOMAIN nutrition.v

\* C18: the keys of every panel are among energy, protein, fat, carbohydrate,
\* sugar, sodium and their NRV counterparts; kNRV is present exactly when k
\* is; an empty panel has no NRV key; and every NRV value is computed from
\* the nutrient's value, never read from the text.
NrvKeysFollowNutrients ==
    pc = "nutrition" =>
        /\ nutrition.k = "dict"
        /\ DOMAIN nutrition.v \subseteq
              DOMAIN nrv_values \cup {NrvKey[key] : key \in DOMAIN nrv_values}
        /\ \A key \in DOMAIN nrv_values :
              /\ NrvKey[key] \in DOMAIN nutrition.v <=> key \in DOMAIN nutrition.v
              /\ key \in DOMAIN nutrition.v =>
                    nutrition.v[NrvKey[key]] = NrvText(nutrition.v[key], nrv_values[key])

\* '能量 1450kJ 25%': the panel's energyNRV is the computed 17%, not the
\* printed 25%
PrintedNrvIgnored ==
    /\ pc = "nutrition"
    /\ Contains(full_text, <<"2", "5", "%">>)
    /\ nutrition.v.energyNRV = <<"1", "7", "%">>

---------------------------------------------------------------------------
(* Properties of extract_barcode (SpecBarcode) *)

\* C10: when the text holds no label 条码: or 条码： followed (after optional
\* white space) by 13 digits, the barcode is found exactly when the text
\* holds "69" followed by 11 digits, and is the first such 13 characters;
\* when it holds a labeled barcode, the 13 digits after the first label are
\* the result, whatever unlabeled 69-string the text also holds.
LabeledBarcodeElseFirst69 ==
    pc = "barcode" =>
        LET s == full_text
            Digits(i, n) == i + n - 1 <= Len(s) /\ \A p \in i..i + n - 1 : s[p] \in Digit
            Labeled(i, j) ==
                /\ i + 2 <= Len(s)
                /\ SubSeq(s, i, i + 1) = <<"tiao2", "ma3">>
                /\ s[i + 2] \in {":", "colon_fw"}
                /\ \A p \in i + 3..j - 1 : s[p] \in Space
                /\ Digits(j, 13)
            labels == {i \in 1..Len(s) : \E j \in i + 3..Len(s) : Labeled(i, j)}
            plain == {i \in 1..Len(s) - 1 :
                         s[i] = "6" /\ s[i + 1] = "9" /\ Digits(i, 13)}
        IN  IF labels = {}
            THEN /\ commodityBarcode # None <=> plain # {}
                 /\ plain # {} =>
                       commodityBarcode =
                           Str(SubSeq(s, SetMin(plain), SetMin(plain) + 12))
            ELSE \E j \in 1..Len(s) :
                    /\ Labeled(SetMin(labels), j)
                    /\ commodityBarcode = Str(SubSeq(s, j, j + 12))

\* A text with an unlabeled 69-string before a labeled barcode:
\* '6912345678901条码:1234567890123' gives '1234567890123'
LabeledBarcodeWins ==
    /\ pc = "barcode"
    /\ full_text =
          <<"6", "9", "1", "2", "3", "4", "5", "6", "7", "8", "9", "0", "1",
            "tiao2", "ma3", ":",
            "1", "2", "3", "4", "5", "6", "7", "8", "9", "0", "1", "2", "3">>
    /\ commodityBarcode =
          Str(<<"1", "2", "3", "4", "5", "6", "7", "8", "9", "0", "1", "2", "3">>)

---------------------------------------------------------------------------
(* Properties of the single fields of the record (Spec) *)

\* C11: whenever the text holds SC or QS immediately followed by 12 or 13
\* digits, labeled or not, foodProductionLicenseNumber is such a string of
\* the text: SC or QS and the digits that follow it there, at least 12.
UnlabeledLicenseIsRecognized ==
    pc = "parsed" =>
        LET s == full_text
            Digits(i, n) == i + n - 1 <= Len(s) /\ \A p \in i..i + n - 1 : s[p] \in Digit
            starts == {i \in 1..Len(s) - 1 :
                          /\ SubSeq(s, i, i + 1) \in {<<"S", "C">>, <<"Q", "S">>}
                          /\ Digits(i + 2, 12)}
        IN  starts # {} =>
                \E i \in starts : \E n \in 12..Len(s) :
                    /\ Digits(i + 2, n)
                    /\ food_label.v.foodProductionLicenseNumber =
                          Str(SubSeq(s, i, i + n + 1))

\* C12: net content and shelf life are the number directly followed by the
\* complete unit as written, without a space: for the first line that holds
\* the label, and holds it as label, colon, number and unit up to the end of
\* the line, the field is the number and the whole unit ('18个月', '400g',
\* '500mL'), not the unit's first character.
QuantityKeepsWholeUnit ==
    pc = "parsed" =>
        \A field \in {"netContent", "shelfLife"} : \A k \in 1..Len(text_lines) :
            LET label == IF field = "netContent" THEN <<"jing4", "han2", "liang4">>
                         ELSE <<"bao3", "zhi4_quality", "qi1">>
                line == text_lines[k]
                from == Len(label) + 2
                parts == {abc \in (from..Len(line)) \X (from..Len(line)) \X (from..Len(line)) :
                             /\ abc[1] <= abc[2] /\ abc[2] < abc[3]
                             /\ \A p \in from..abc[1] - 1 : line[p] \in Space
                             /\ line[abc[1]] \in Digit
                             /\ \A p \in abc[1]..abc[2] : line[p] \in Digit \cup {"."}
                             /\ \A p \in abc[2] + 1..abc[3] - 1 : line[p] \in Space
                             /\ \A p \in abc[3]..Len(line) :
                                   line[p] \notin Space \cup Digit \cup {"."}}
            IN  (/\ \A j \in 1..k - 1 : ~Contains(text_lines[j], label)
                 /\ Len(line) >= from
                 /\ SubSeq(line, 1, Len(label)) = label
                 /\ line[Len(label) + 1] \in {":", "colon_fw"}
                 /\ parts # {})
                => \E abc \in parts :
                       food_label.v[field] =
                           Str(SubSeq(line, abc[1], abc[2]) \o SubSeq(line, abc[3], Len(line)))

\* C13: when every 生产日期 of the text is followed by a colon (full-width or
\* half-width) and a date written as YYYY-MM-DD, YYYY/MM/DD, YYYY年MM月DD日
\* (or without the 日) or YYYY.MM.DD, productionDate is that date exactly as
\* written, trailing 日 included; among several clauses the first listed
\* pattern wins: the leftmost date of the first three conventions, and the
\* leftmost dotted date only when there is none.
DatedClauseIsReturned ==
    pc = "parsed" =>
        LET s == full_text
            IsDigits(ps) == \A p \in ps : p <= Len(s) /\ s[p] \in Digit
            IsDate(d, sep1, sep2) ==
                /\ d + 9 <= Len(s)
                /\ IsDigits({d, d + 1, d + 2, d + 3, d + 5, d + 6, d + 8, d + 9})
                /\ s[d + 4] = sep1
                /\ s[d + 7] = sep2
            End(d) == IF IsDate(d, "nian2", "yue4") /\ d + 10 <= Len(s) /\ s[d + 10] = "ri4"
                      THEN d + 10 ELSE d + 9
            DateStart(i) == SetMin({p \in i + 5..Len(s) + 1 : p = Len(s) + 1 \/ s[p] \notin Space})
            Clause(i, seps) ==
                /\ i + 4 <= Len(s)
                /\ s[i + 4] \in {":", "colon_fw"}
                /\ \E sep \in seps : IsDate(DateStart(i), sep[1], sep[2])
                /\ End(DateStart(i)) = Len(s) \/ s[End(DateStart(i)) + 1] \in Space
            labels == {i \in 1..Len(s) - 3 :
                          SubSeq(s, i, i + 3) = <<"sheng1", "chan3", "ri4", "qi1">>}
            first == {i \in labels :
                         Clause(i, {<<"-", "-">>, <<"/", "/">>, <<"nian2", "yue4">>})}
            second == {i \in labels : Clause(i, {<<".", ".">>})}
            winner == IF first # {} THEN SetMin(first) ELSE SetMin(second)
        IN  (labels # {} /\ labels = first \cup second) =>
                food_label.v.productionDate =
                    Str(SubSeq(s, DateStart(winner), End(DateStart(winner))))

\* Parsed: a dotted date on the first line and a date that ends in 日 on the
\* second, of which the second is returned
DatedClausesParsed ==
    /\ pc = "parsed"
    /\ Len(text_lines) = 2
    /\ Contains(text_lines[1], <<"2", "0", "2", "5", ".", "0", "4", ".", "2", "0">>)
    /\ food_label.v.productionDate =
          Str(<<"2", "0", "2", "4", "nian2", "1", "2", "yue4", "3", "1", "ri4">>)

---------------------------------------------------------------------------
(* Properties of the whole request (SpecRequest) *)

---------------------------------------------------------------------------
(* Properties of the line-based extractors (Spec) *)

\* C15: when the first line that names 配料 holds, after its colon, fewer than
\* 10 characters, ingredients is that text followed by the following lines,
\* each after one space: at most 4 of them, none after the text has grown
\* longer than 50, and none from the first line on that starts with the label
\* of another field (净含量, 生产日期, 保质期); with 10 or more characters
\* after the colon, ingredients is that text alone.
IngredientsStopAtOtherFields ==
    pc = "parsed" =>
        \A k \in 1..Len(text_lines) :
            LET line == text_lines[k]
                value == SubSeq(line, 4, Len(line))
                OtherField(l) ==
                    \E label \in {<<"jing4", "han2", "liang4">>,
                                   <<"sheng1", "chan3", "ri4", "qi1">>,
                                   <<"bao3", "zhi4_quality", "qi1">>} :
                        Len(l) >= Len(label) /\ SubSeq(l, 1, Len(label)) = label
                fields == {j \in k + 1..Len(text_lines) : OtherField(text_lines[j])}
                last == Min(Min(k + 4, Len(text_lines)),
                            IF fields = {} THEN Len(text_lines) ELSE SetMin(fields) - 1)
                grown[j \in k..last] ==
                    IF j = k THEN value ELSE grown[j - 1] \o <<" ">> \o text_lines[j]
                full == {j \in k..last : Len(grown[j]) > 50}
            IN  (/\ \A j \in 1..k - 1 : ~AnyIn(IngredientKeywords, text_lines[j])
                 /\ Len(line) > 3
                 /\ SubSeq(line, 1, 2) = <<"pei4", "liao4">>
                 /\ line[3] \in {":", "colon_fw"}
                 /\ line[4] \notin Space)
                => food_label.v.ingredients =
                       Str(IF Len(value) >= 10 THEN value
                           ELSE IF full = {} THEN grown[last]
                           ELSE grown[SetMin(full)])

\* C16: when exactly one line names a producer keyword (生产商, 生产厂家, 制造商,
\* 委托生产企业, 生产者), and that line is the keyword, a colon (full-width or
\* half-width) and a value without 地址 and 电话, producer is that value,
\* whether the line is the first, a middle or the last one, and whether or
\* not some line holds 有限公司.
LabeledProducerAnywhere ==
    pc = "parsed" =>
        \A k \in 1..Len(text_lines) : \A j \in 1..Len(ProducerKeywords) :
            LET line == text_lines[k]
                keyword == ProducerKeywords[j]
                value == SubSeq(line, Len(keyword) + 2, Len(line))
            IN  (/\ \A i \in 1..Len(text_lines) :
                        i # k => ~AnyIn(ProducerKeywords, text_lines[i])
                 /\ Len(line) > Len(keyword) + 1
                 /\ SubSeq(line, 1, Len(keyword)) = keyword
                 /\ line[Len(keyword) + 1] \in {":", "colon_fw"}
                 /\ value[1] \notin Space
                 /\ ~Contains(value, <<"di4", "zhi3">>)
                 /\ ~Contains(value, <<"dian4", "hua4">>))
                => food_label.v.producer = Str(value)

---------------------------------------------------------------------------
(* Properties of the module-level data (SpecMock) *)

\* C19: after any sequence of /ocr requests the process-wide data is what it
\* was before the first request: no request modifies module-level data.  In
\* the mock service that data is the list MOCK_DATA.
ModuleDataAsBeforeFirstRequest == mock_data = MOCK_DATA

====
